---- MODULE Spec2Model ----
(***************************************************************************)
(* A model of bluffai: the phases of a hand of Texas Hold'em               *)
(* (src/src/bluffai/states.py, with the earlier draft state.py), the       *)
(* validation and application of player actions                            *)
(* (src/src/bluffai/__init__.py) and the pots (src/src/bluffai/types.py).  *)
(*                                                                         *)
(* A game state is one record, `state`, whose fields carry the names of    *)
(* the dataclass fields of states.py.  A field that the current phase does *)
(* not carry is <<>> (sequences) or 0 (blinds, single cards).  Python's    *)
(* None is <<>>, and an optional number n is <<n>>.                         *)
(***************************************************************************)
EXTENDS Integers, Sequences, FiniteSets, TLC

VARIABLES
    state,        \* the current State value (states.py dataclasses / __init__.State)
    lastKind,     \* kind of the action accepted last ("" before any)
    lastPhase,    \* phase in which that action was submitted
    lastPayload,  \* its [player_id, bet]
    attempt,      \* the action just rejected, its exception, and whether it was
                  \* submitted again; NoAttempt otherwise
    hands,        \* number of hands started so far
    buy_ins,      \* sum of the stacks the game started with
    contributions,\* input of the Pot Allocator: [ids, chips, folded], or <<>>
    allocation,   \* its output: [pots, error], or <<>> before it has run
    gameObj,      \* a _Game value (__init__.py): [players, button_position, round]
    step,         \* what _Game.next_step returned for it, NoStep before the call
    decks,        \* the Deck objects (__init__.py): [random, cards], or NoDeck
    deckLog,      \* of each Deck: its seed, the shuffles and deals made, the exception
    loop          \* a call of the game loop: [pc, state, action, raised]

vars ==
    <<state, lastKind, lastPhase, lastPayload, attempt, hands, buy_ins, contributions,
      allocation, gameObj, step, decks, deckLog, loop>>

----------------------------------------------------------------------------
(* Bounds of the model. *)

\* Player bets submitted by agents range over -1 .. MaxBet, and None.
MaxBet == 3

\* Number of hands a game may start.
MaxHands == 1
\* players whose contributions the Pot Allocator is run on
MaxContributors == 3

\* Number of players a _Game is given.
MaxSeats == 3

(* Program constants. *)

\* states.py:26  "The number of players must be less than or equal to 23."
MaxPlayers == 23

\* states.py:384  "There must be 52 total cards in the hand."
NumCards == 52

\* states.py:82  at least 2 players in a hand; types.py:100 at least 2 in a pot
MinHandPlayers == 2
MinPotPlayers == 2

----------------------------------------------------------------------------
(* Helpers for Python's sequence operations. *)

None == <<>>

Some(n) == <<n>>

Range(seq) == {seq[i] : i \in DOMAIN seq}

\* list.index(x): position of the first occurrence (only used when x occurs)
IndexOf(seq, x) == CHOOSE i \in DOMAIN seq : seq[i] = x /\ \A j \in 1..(i - 1) : seq[j] # x

RECURSIVE SumSeq(_)
SumSeq(seq) == IF seq = <<>> THEN 0 ELSE Head(seq) + SumSeq(Tail(seq))

MaxOf(S) == CHOOSE m \in S : \A x \in S : x <= m

MinOf(S) == CHOOSE m \in S : \A x \in S : m <= x

Min2(a, b) == IF a <= b THEN a ELSE b

\* the cards of a tuple of 2-tuples, flattened in order
RECURSIVE Flatten(_)
Flatten(pairs) == IF pairs = <<>> THEN <<>> ELSE Head(pairs) \o Flatten(Tail(pairs))

\* the permutations of a finite set, as sequences
RECURSIVE PermsOf(_)
PermsOf(S) == IF S = {} THEN {<<>>} ELSE UNION {{<<x>> \o p : p \in PermsOf(S \ {x})} : x \in S}

----------------------------------------------------------------------------
(* The phases (the State subclasses of states.py) and the action kinds     *)
(* (the Action subclasses of actions.py).                                   *)

BettingPhases == {"PreFlopBetting", "PostFlopBetting", "PostTurnBetting", "PostRiverBetting"}

Phases ==
    {"StartingGame", "SettingBlinds", "PlacingBlinds", "ShufflingDeck", "DealingHoleCards",
     "DealingFlopCards", "DealingTurnCard", "DealingRiverCard", "Showdown",
     "DistributingPots", "PostHand", "GameOver"} \cup BettingPhases

PlayerKinds == {"PlayerCalls", "PlayerRaises", "PlayerFolds", "PlayerChecks"}

Kinds ==
    {"StartHand", "SetBlinds", "PlaceBlinds", "ShuffleDeck", "DealHoleCards",
     "DeclareDefaultWinner", "FinishPreFlopBetting", "DealFlopCards",
     "FinishPostFlopBetting", "DealTurnCard", "FinishPostTurn", "DealRiverCard",
     "FinishPostRiverBetting", "PlayerRevealsHand", "RankHands", "DistributePots",
     "EndGame"} \cup PlayerKinds

\* A state value with no field set.
Blank ==
    [phase |-> "None", module |-> "states",
     player_ids |-> <<>>, player_stacks |-> <<>>, hand_player_ids |-> <<>>,
     little_blind |-> 0, big_blind |-> 0, hand_player_bets |-> <<>>, deck |-> <<>>,
     hand_player_hole_cards |-> <<>>, hand_player_has_folded |-> <<>>, pots |-> <<>>,
     flop_cards |-> <<>>, turn_card |-> 0, river_card |-> 0,
     hand_player_has_revealed_hand |-> <<>>, hand_ranking_player_ids |-> <<>>]

\* player_stacks[player_ids.index(player_id)]
StackOf(s, player_id) == s.player_stacks[IndexOf(s.player_ids, player_id)]

----------------------------------------------------------------------------
(* State construction: the __post_init__ validators of states.py.  Each    *)
(* group of validate_state calls yields "none" or the exception that       *)
(* leaves the constructor ("InvalidStateError"; "ValueError" when a        *)
(* tuple.index lookup fails).                                               *)

\* a validation of the players that does not count them
V_Players_uncounted(s) ==
    IF Len(s.player_ids) = Cardinality(Range(s.player_ids))
    THEN "none" ELSE "InvalidStateError"

\* "Validate players in the game."
V_Players(s) ==
    IF Len(s.player_ids) <= MaxPlayers /\ Len(s.player_ids) = Cardinality(Range(s.player_ids))
    THEN "none" ELSE "InvalidStateError"

\* "Validate stacks of players in the game."  StartingGame wants positive stacks.
V_Stacks(s, positive) ==
    IF /\ Len(s.player_stacks) = Len(s.player_ids)
       /\ \A i \in DOMAIN s.player_stacks :
              IF positive THEN s.player_stacks[i] > 0 ELSE s.player_stacks[i] >= 0
    THEN "none" ELSE "InvalidStateError"

\* "Validate players in the hand."
V_HandPlayers(s) ==
    IF /\ Len(s.hand_player_ids) >= MinHandPlayers
       /\ \A i \in DOMAIN s.hand_player_ids : s.hand_player_ids[i] \in Range(s.player_ids)
    THEN "none" ELSE "InvalidStateError"

\* "Validate stacks of players in the hand.": the truth value of the stack in
\* SettingBlinds and PlacingBlinds, > 0 up to PreFlopBetting, >= 0 afterwards.
V_HandStacks(s, mode) ==
    IF \A i \in DOMAIN s.hand_player_ids :
           LET stack == StackOf(s, s.hand_player_ids[i])
           IN  CASE mode = "truthy" -> stack # 0
                 [] mode = "positive" -> stack > 0
                 [] OTHER -> stack >= 0
    THEN "none" ELSE "InvalidStateError"

\* "Validate blinds."
V_Blinds(s) ==
    IF s.little_blind > 0 /\ s.big_blind > 0 THEN "none" ELSE "InvalidStateError"

\* a validation of the bets that does not compare them with the stacks
V_Bets_unbacked(s) ==
    IF /\ Len(s.hand_player_bets) = Len(s.hand_player_ids)
       /\ \A i \in DOMAIN s.hand_player_bets : s.hand_player_bets[i] >= 0
    THEN "none" ELSE "InvalidStateError"

\* "Validate bets of players in the hand."
V_Bets(s) ==
    IF /\ Len(s.hand_player_bets) = Len(s.hand_player_ids)
       /\ \A i \in DOMAIN s.hand_player_bets : s.hand_player_bets[i] >= 0
       /\ \A i \in DOMAIN s.hand_player_bets :
              StackOf(s, s.hand_player_ids[i]) >= s.hand_player_bets[i]
    THEN "none" ELSE "InvalidStateError"

\* The bets of the blind positions (ShuffleDeck and DealingHoleCards).  The
\* little-blind position is compared with big_blind, as the source does.
V_BlindBets(s) ==
    IF /\ \/ s.hand_player_bets[1] = s.big_blind
          \/ s.hand_player_bets[1] = StackOf(s, s.hand_player_ids[1])
       /\ \/ s.hand_player_bets[2] = s.big_blind
          \/ s.hand_player_bets[2] = StackOf(s, s.hand_player_ids[2])
       /\ \A i \in 3..Len(s.hand_player_bets) : s.hand_player_bets[i] = 0
    THEN "none" ELSE "InvalidStateError"

\* "Validate cards in the hand." on the concatenation hand_cards
V_Cards(hand_cards) ==
    IF Len(hand_cards) = NumCards /\ Len(hand_cards) = Cardinality(Range(hand_cards))
    THEN "none" ELSE "InvalidStateError"

\* "Validate hole cards of players in the hand."
V_HoleCards(s) ==
    IF Len(s.hand_player_hole_cards) = Len(s.hand_player_ids)
    THEN "none" ELSE "InvalidStateError"

\* a validation of the folds that only counts them
V_Folded_counted(s) ==
    IF Len(s.hand_player_has_folded) = Len(s.hand_player_ids)
    THEN "none" ELSE "InvalidStateError"

\* "Validate folded players in the hand."
V_Folded(s) ==
    IF /\ Len(s.hand_player_has_folded) = Len(s.hand_player_ids)
       /\ ~ (\A i \in DOMAIN s.hand_player_has_folded : s.hand_player_has_folded[i])
    THEN "none" ELSE "InvalidStateError"

\* a validation of the pots that does not look at who has folded
V_Pots_unfolded(s) ==
    IF ~ (\A i \in DOMAIN s.pots : Range(s.pots[i].player_ids) \subseteq Range(s.player_ids))
    THEN "InvalidStateError"
    ELSE IF ~ (\A i \in DOMAIN s.pots :
                   Range(s.pots[i].player_ids) \subseteq Range(s.hand_player_ids))
    THEN "ValueError"
    ELSE "none"

\* "Validate pots in the hand.": every pot player is a player of the game; then
\* hand_player_has_folded[hand_player_ids.index(player_id)] is looked up for
\* every player of every pot (the list comprehensions are built in full), which
\* raises ValueError for a pot player who is not in the hand.
V_Pots(s) ==
    IF ~ (\A i \in DOMAIN s.pots : Range(s.pots[i].player_ids) \subseteq Range(s.player_ids))
    THEN "InvalidStateError"
    ELSE IF ~ (\A i \in DOMAIN s.pots :
                   Range(s.pots[i].player_ids) \subseteq Range(s.hand_player_ids))
    THEN "ValueError"
    ELSE IF \A i \in DOMAIN s.pots :
                \E j \in DOMAIN s.pots[i].player_ids :
                    ~ s.hand_player_has_folded[IndexOf(s.hand_player_ids, s.pots[i].player_ids[j])]
    THEN "none" ELSE "InvalidStateError"

\* a validation of the revealed hands that only counts them
V_Revealed_counted(s) ==
    IF Len(s.hand_player_has_revealed_hand) = Len(s.hand_player_ids)
    THEN "none" ELSE "InvalidStateError"

\* "Validate revealed hands by players in the hand." (zip stops at the shorter)
V_Revealed(s) ==
    IF /\ Len(s.hand_player_has_revealed_hand) = Len(s.hand_player_ids)
       /\ ~ (\E i \in DOMAIN s.hand_player_has_folded :
                 s.hand_player_has_folded[i] /\ s.hand_player_has_revealed_hand[i])
    THEN "none" ELSE "InvalidStateError"

\* a validation of the pots that does not look at the ranking
V_PotsRanking_unranked(s) ==
    IF \A i \in DOMAIN s.pots : Range(s.pots[i].player_ids) \subseteq Range(s.player_ids)
    THEN "none" ELSE "InvalidStateError"

\* DistributingPots: "Validate pots in the hand."
V_PotsRanking(s) ==
    IF /\ \A i \in DOMAIN s.pots : Range(s.pots[i].player_ids) \subseteq Range(s.player_ids)
       /\ \A i \in DOMAIN s.pots :
              Range(s.pots[i].player_ids) \cap Range(s.hand_ranking_player_ids) # {}
    THEN "none" ELSE "InvalidStateError"

\* DistributingPots: "Validate ranking of players in the hand."
V_Ranking(s) ==
    IF Range(s.hand_ranking_player_ids) \subseteq Range(s.hand_player_ids)
    THEN "none" ELSE "InvalidStateError"

\* The first exception of a sequence of checks, in order ("none": all pass).
RECURSIVE FirstError(_)
FirstError(errors) ==
    IF errors = <<>> THEN "none"
    ELSE IF Head(errors) # "none" THEN Head(errors) ELSE FirstError(Tail(errors))

\* hand_cards of each phase: deck + hole cards (+ flop + turn + river)
HoleCardsOf(s) == Flatten(s.hand_player_hole_cards)

\* state.py (the earlier draft) builds DealingTurnCard.hand_cards from the hole
\* cards and the deck only; states.py adds flop_cards.
HandCards_DealingTurnCard(s) ==
    IF s.module = "state" THEN HoleCardsOf(s) \o s.deck
    ELSE s.deck \o HoleCardsOf(s) \o s.flop_cards

V_StartingGame(s) == FirstError(<<V_Players(s), V_Stacks(s, TRUE)>>)

V_SettingBlinds(s) ==
    LET game == FirstError(<<V_Players(s), V_Stacks(s, FALSE), V_HandPlayers(s)>>)
    IN  IF game # "none" THEN game ELSE V_HandStacks(s, "truthy")

V_PlacingBlinds(s) ==
    LET hand == V_SettingBlinds(s)
    IN  IF hand # "none" THEN hand ELSE V_Blinds(s)

\* the checks every later phase of a hand starts with
V_Hand(s, mode) ==
    LET game == FirstError(<<V_Players(s), V_Stacks(s, FALSE), V_HandPlayers(s)>>)
    IN  IF game # "none" THEN game ELSE V_HandStacks(s, mode)

V_ShuffleDeck(s) ==
    LET hand == V_Hand(s, "positive")
        bets == FirstError(<<V_Blinds(s), V_Bets(s)>>)
    IN  IF hand # "none" THEN hand
        ELSE IF bets # "none" THEN bets
        ELSE V_BlindBets(s)

V_DealingHoleCards(s) ==
    LET blinds == V_ShuffleDeck(s)
    IN  IF blinds # "none" THEN blinds ELSE V_Cards(s.deck)

V_PreFlopBetting(s) ==
    LET hand == V_Hand(s, "positive")
        bets == FirstError(<<V_Blinds(s), V_Bets(s)>>)
    IN  IF hand # "none" THEN hand
        ELSE IF bets # "none" THEN bets
        ELSE FirstError(<<V_Cards(s.deck \o HoleCardsOf(s)), V_HoleCards(s), V_Folded(s)>>)

\* the phases after the pre-flop round: (bets,) cards, hole cards, folds, pots
V_AfterPreFlop(s, with_blinds, with_bets, hand_cards) ==
    LET hand == V_Hand(s, "nonneg")
        blinds == IF with_blinds THEN V_Blinds(s) ELSE "none"
        bets == IF with_bets THEN V_Bets(s) ELSE "none"
        folds == FirstError(<<V_Cards(hand_cards), V_HoleCards(s), V_Folded(s)>>)
    IN  IF hand # "none" THEN hand
        ELSE IF blinds # "none" THEN blinds
        ELSE IF bets # "none" THEN bets
        ELSE IF folds # "none" THEN folds
        ELSE V_Pots(s)

V_DealingFlopCards(s) == V_AfterPreFlop(s, TRUE, FALSE, s.deck \o HoleCardsOf(s))

V_PostFlopBetting(s) ==
    V_AfterPreFlop(s, TRUE, TRUE, s.deck \o HoleCardsOf(s) \o s.flop_cards)

V_DealingTurnCard(s) == V_AfterPreFlop(s, TRUE, FALSE, HandCards_DealingTurnCard(s))

V_PostTurnBetting(s) ==
    V_AfterPreFlop(s, TRUE, TRUE, s.deck \o HoleCardsOf(s) \o s.flop_cards \o <<s.turn_card>>)

V_DealingRiverCard(s) ==
    V_AfterPreFlop(s, TRUE, FALSE, s.deck \o HoleCardsOf(s) \o s.flop_cards \o <<s.turn_card>>)

V_PostRiverBetting(s) ==
    V_AfterPreFlop(s, TRUE, TRUE,
        s.deck \o HoleCardsOf(s) \o s.flop_cards \o <<s.turn_card, s.river_card>>)

V_Showdown(s) ==
    LET pots == V_AfterPreFlop(s, FALSE, FALSE,
                    s.deck \o HoleCardsOf(s) \o s.flop_cards \o <<s.turn_card, s.river_card>>)
    IN  IF pots # "none" THEN pots ELSE V_Revealed(s)

V_DistributingPots(s) ==
    LET hand == V_Hand(s, "nonneg")
    IN  IF hand # "none" THEN hand ELSE FirstError(<<V_PotsRanking(s), V_Ranking(s)>>)

V_PostHand(s) == FirstError(<<V_Players(s), V_Stacks(s, FALSE)>>)

V_GameOver(s) == FirstError(<<V_Players(s), V_Stacks(s, FALSE)>>)

\* Constructing the State subclass named by s.phase: "none" when the value
\* comes to exist, else the exception of its __post_init__.
ConstructError(s) ==
    CASE s.phase = "StartingGame" -> V_StartingGame(s)
      [] s.phase = "SettingBlinds" -> V_SettingBlinds(s)
      [] s.phase = "PlacingBlinds" -> V_PlacingBlinds(s)
      [] s.phase = "ShufflingDeck" -> V_ShuffleDeck(s)
      [] s.phase = "DealingHoleCards" -> V_DealingHoleCards(s)
      [] s.phase = "PreFlopBetting" -> V_PreFlopBetting(s)
      [] s.phase = "DealingFlopCards" -> V_DealingFlopCards(s)
      [] s.phase = "PostFlopBetting" -> V_PostFlopBetting(s)
      [] s.phase = "DealingTurnCard" -> V_DealingTurnCard(s)
      [] s.phase = "PostTurnBetting" -> V_PostTurnBetting(s)
      [] s.phase = "DealingRiverCard" -> V_DealingRiverCard(s)
      [] s.phase = "PostRiverBetting" -> V_PostRiverBetting(s)
      [] s.phase = "Showdown" -> V_Showdown(s)
      [] s.phase = "DistributingPots" -> V_DistributingPots(s)
      [] s.phase = "PostHand" -> V_PostHand(s)
      [] s.phase = "GameOver" -> V_GameOver(s)

\* a Pot that one player may hold alone
PotError_single(pot) ==
    IF Len(pot.player_ids) >= 1 /\ pot.player_chips > 0
    THEN "none" ELSE "InvalidPotError"

\* Pot.__post_init__ (types.py): at least 2 player IDs, positive chips per player
PotError(pot) ==
    IF Len(pot.player_ids) >= MinPotPlayers /\ pot.player_chips > 0
    THEN "none" ELSE "InvalidPotError"

----------------------------------------------------------------------------
(* Player actions: Action.validate, State.largest_bet,                     *)
(* validate_action_for_state and apply_action of __init__.py.  An action   *)
(* is [kind, player_id, bet, arg]; bet is None or Some(n).  State.players  *)
(* (the records holding bet and has_folded) are the players in the hand;   *)
(* State.player_ids and State.player_stacks are the fields of that name.   *)

Act(kind, player_id, bet, arg) ==
    [kind |-> kind, player_id |-> player_id, bet |-> bet, arg |-> arg]

\* a validation that lets every action through
Action_validate_lax(a) == "none"

\* Action.validate: a CALL or a RAISE whose bet is None or 0 is malformed
Action_validate(a) ==
    IF a.kind \in {"PlayerCalls", "PlayerRaises"} /\ (a.bet = None \/ a.bet = Some(0))
    THEN "InvalidActionError" ELSE "none"

\* a largest bet that is read off the first player only
largest_bet_first(s) ==
    IF s.hand_player_bets = <<>> THEN 0 ELSE s.hand_player_bets[1]

\* State.largest_bet: 0 when there are no players, else the maximum bet
largest_bet(s) ==
    IF s.hand_player_bets = <<>> THEN 0 ELSE MaxOf(Range(s.hand_player_bets))

\* a validation that lets a RAISE through when it only matches the largest bet
validate_action_for_state_match(s, a) ==
    IF a.player_id \notin Range(s.player_ids) THEN "InvalidActionForStateError"
    ELSE IF a.kind = "PlayerChecks" THEN
        IF largest_bet(s) # 0 THEN "InvalidActionForStateError" ELSE "none"
    ELSE IF a.kind = "PlayerCalls" THEN
        IF largest_bet(s) = 0 THEN "InvalidActionForStateError"
        ELSE IF a.bet = None THEN "AssertionError"
        ELSE IF a.bet[1] > StackOf(s, a.player_id) THEN "InvalidActionForStateError"
        ELSE IF a.bet[1] > largest_bet(s) THEN "InvalidActionForStateError"
        ELSE IF a.bet[1] < largest_bet(s) /\ a.bet[1] # StackOf(s, a.player_id)
             THEN "InvalidActionForStateError"
        ELSE "none"
    ELSE IF a.kind = "PlayerRaises" THEN
        IF a.bet = None THEN "AssertionError"
        ELSE IF a.bet[1] > StackOf(s, a.player_id) THEN "InvalidActionForStateError"
        ELSE IF a.bet[1] < largest_bet(s) THEN "InvalidActionForStateError"
        ELSE "none"
    ELSE "none"

\* a validation that lets a CALL fall short of the largest bet with chips left
validate_action_for_state_short(s, a) ==
    IF a.player_id \notin Range(s.player_ids) THEN "InvalidActionForStateError"
    ELSE IF a.kind = "PlayerChecks" THEN
        IF largest_bet(s) # 0 THEN "InvalidActionForStateError" ELSE "none"
    ELSE IF a.kind = "PlayerCalls" THEN
        IF largest_bet(s) = 0 THEN "InvalidActionForStateError"
        ELSE IF a.bet = None THEN "AssertionError"
        ELSE IF a.bet[1] > StackOf(s, a.player_id) THEN "InvalidActionForStateError"
        ELSE IF a.bet[1] > largest_bet(s) THEN "InvalidActionForStateError"
        ELSE "none"
    ELSE IF a.kind = "PlayerRaises" THEN
        IF a.bet = None THEN "AssertionError"
        ELSE IF a.bet[1] > StackOf(s, a.player_id) THEN "InvalidActionForStateError"
        ELSE IF a.bet[1] <= largest_bet(s) THEN "InvalidActionForStateError"
        ELSE "none"
    ELSE "none"

\* a validation that lets a RAISE stay under the largest bet
validate_action_for_state_under(s, a) ==
    IF a.player_id \notin Range(s.player_ids) THEN "InvalidActionForStateError"
    ELSE IF a.kind = "PlayerChecks" THEN
        IF largest_bet(s) # 0 THEN "InvalidActionForStateError" ELSE "none"
    ELSE IF a.kind = "PlayerCalls" THEN
        IF largest_bet(s) = 0 THEN "InvalidActionForStateError"
        ELSE IF a.bet = None THEN "AssertionError"
        ELSE IF a.bet[1] > StackOf(s, a.player_id) THEN "InvalidActionForStateError"
        ELSE IF a.bet[1] > largest_bet(s) THEN "InvalidActionForStateError"
        ELSE IF a.bet[1] < largest_bet(s) /\ a.bet[1] # StackOf(s, a.player_id)
             THEN "InvalidActionForStateError"
        ELSE "none"
    ELSE IF a.kind = "PlayerRaises" THEN
        IF a.bet = None THEN "AssertionError"
        ELSE IF a.bet[1] > StackOf(s, a.player_id) THEN "InvalidActionForStateError"
        ELSE IF a.bet[1] = largest_bet(s) THEN "InvalidActionForStateError"
        ELSE "none"
    ELSE "none"

\* a validation that looks at the bets of a CHECK before it looks for the player
validate_action_for_state_late(s, a) ==
    IF a.kind = "PlayerChecks" THEN
        IF largest_bet(s) # 0 THEN "InvalidActionForStateError" ELSE "none"
    ELSE IF a.player_id \notin Range(s.player_ids) THEN "InvalidActionForStateError"
    ELSE IF a.kind = "PlayerCalls" THEN
        IF largest_bet(s) = 0 THEN "InvalidActionForStateError"
        ELSE IF a.bet = None THEN "AssertionError"
        ELSE IF a.bet[1] > StackOf(s, a.player_id) THEN "InvalidActionForStateError"
        ELSE IF a.bet[1] > largest_bet(s) THEN "InvalidActionForStateError"
        ELSE IF a.bet[1] < largest_bet(s) /\ a.bet[1] # StackOf(s, a.player_id)
             THEN "InvalidActionForStateError"
        ELSE "none"
    ELSE IF a.kind = "PlayerRaises" THEN
        IF a.bet = None THEN "AssertionError"
        ELSE IF a.bet[1] > StackOf(s, a.player_id) THEN "InvalidActionForStateError"
        ELSE IF a.bet[1] <= largest_bet(s) THEN "InvalidActionForStateError"
        ELSE "none"
    ELSE "none"

\* validate_action_for_state
validate_action_for_state(s, a) ==
    IF a.player_id \notin Range(s.player_ids) THEN "InvalidActionForStateError"
    ELSE IF a.kind = "PlayerChecks" THEN
        IF largest_bet(s) # 0 THEN "InvalidActionForStateError" ELSE "none"
    ELSE IF a.kind = "PlayerCalls" THEN
        IF largest_bet(s) = 0 THEN "InvalidActionForStateError"
        ELSE IF a.bet = None THEN "AssertionError"
        ELSE IF a.bet[1] > StackOf(s, a.player_id) THEN "InvalidActionForStateError"
        ELSE IF a.bet[1] > largest_bet(s) THEN "InvalidActionForStateError"
        ELSE IF a.bet[1] < largest_bet(s) /\ a.bet[1] # StackOf(s, a.player_id)
             THEN "InvalidActionForStateError"
        ELSE "none"
    ELSE IF a.kind = "PlayerRaises" THEN
        IF a.bet = None THEN "AssertionError"
        ELSE IF a.bet[1] > StackOf(s, a.player_id) THEN "InvalidActionForStateError"
        ELSE IF a.bet[1] <= largest_bet(s) THEN "InvalidActionForStateError"
        ELSE "none"
    ELSE "none"

\* State.player(player_id) is None: no record of that player
PlayerMissing(s, player_id) == player_id \notin Range(s.hand_player_ids)

\* an application that leaves a FOLD without effect
apply_action_unfolded(s, a) ==
    IF a.kind \in {"PlayerFolds", "PlayerChecks"} THEN s
    ELSE [s EXCEPT !.hand_player_bets[IndexOf(s.hand_player_ids, a.player_id)] = a.bet[1]]

\* an application in which a FOLD also takes back the bet of the player
apply_action_unstaked(s, a) ==
    IF a.kind = "PlayerFolds"
    THEN [s EXCEPT !.hand_player_has_folded[IndexOf(s.hand_player_ids, a.player_id)] = TRUE,
                   !.hand_player_bets[IndexOf(s.hand_player_ids, a.player_id)] = 0]
    ELSE IF a.kind = "PlayerChecks" THEN s
    ELSE [s EXCEPT !.hand_player_bets[IndexOf(s.hand_player_ids, a.player_id)] = a.bet[1]]

\* apply_action: FOLD sets has_folded, CHECK does nothing, CALL and RAISE set
\* the player's bet to the action's bet; the stacks are left as they are.
apply_action(s, a) ==
    IF a.kind = "PlayerFolds" THEN
        [s EXCEPT !.hand_player_has_folded[IndexOf(s.hand_player_ids, a.player_id)] = TRUE]
    ELSE IF a.kind = "PlayerChecks" THEN s
    ELSE [s EXCEPT !.hand_player_bets[IndexOf(s.hand_player_ids, a.player_id)] = a.bet[1]]

\* the assertions of apply_action ("assert player is not None")
apply_action_error(s, a) ==
    IF a.kind # "PlayerChecks" /\ PlayerMissing(s, a.player_id)
    THEN "AssertionError" ELSE "none"

----------------------------------------------------------------------------
(* The phase graph: the "Next states" and "Previous states" lists of the   *)
(* docstrings of states.py.  "None": the phase does not take the action.   *)

\* one finishing action that closes every round of bets
FinishKind_any(phase) ==
    IF phase \in {"PreFlopBetting", "PostFlopBetting", "PostTurnBetting", "PostRiverBetting"}
    THEN "FinishPreFlopBetting" ELSE "None"

FinishKind(phase) ==
    CASE phase = "PreFlopBetting" -> "FinishPreFlopBetting"
      [] phase = "PostFlopBetting" -> "FinishPostFlopBetting"
      [] phase = "PostTurnBetting" -> "FinishPostTurn"
      [] phase = "PostRiverBetting" -> "FinishPostRiverBetting"
      [] OTHER -> "None"

\* a round of bets that is followed by the wrong dealing phase
AfterBetting_skip(phase) ==
    CASE phase = "PreFlopBetting" -> "DealingTurnCard"
      [] phase = "PostFlopBetting" -> "DealingTurnCard"
      [] phase = "PostTurnBetting" -> "DealingRiverCard"
      [] phase = "PostRiverBetting" -> "Showdown"
      [] OTHER -> "None"

AfterBetting(phase) ==
    CASE phase = "PreFlopBetting" -> "DealingFlopCards"
      [] phase = "PostFlopBetting" -> "DealingTurnCard"
      [] phase = "PostTurnBetting" -> "DealingRiverCard"
      [] phase = "PostRiverBetting" -> "Showdown"
      [] OTHER -> "None"

\* a phase graph in which a finished game starts another hand
NextStateType_reopened(phase, kind) ==
    CASE phase \in {"StartingGame", "PostHand", "GameOver"} /\ kind = "StartHand"
                                                                    -> "SettingBlinds"
      [] phase \in {"StartingGame", "PostHand"} /\ kind = "EndGame" -> "GameOver"
      [] phase = "SettingBlinds" /\ kind = "SetBlinds" -> "PlacingBlinds"
      [] phase = "PlacingBlinds" /\ kind = "PlaceBlinds" -> "ShufflingDeck"
      [] phase = "ShufflingDeck" /\ kind = "ShuffleDeck" -> "DealingHoleCards"
      [] phase = "DealingHoleCards" /\ kind = "DealHoleCards" -> "PreFlopBetting"
      [] phase \in BettingPhases /\ kind \in PlayerKinds -> phase
      [] phase \in BettingPhases /\ kind = FinishKind(phase) -> AfterBetting(phase)
      [] phase \in BettingPhases /\ kind = "DeclareDefaultWinner" -> "DistributingPots"
      [] phase = "DealingFlopCards" /\ kind = "DealFlopCards" -> "PostFlopBetting"
      [] phase = "DealingTurnCard" /\ kind = "DealTurnCard" -> "PostTurnBetting"
      [] phase = "DealingRiverCard" /\ kind = "DealRiverCard" -> "PostRiverBetting"
      [] phase = "Showdown" /\ kind \in {"PlayerFolds", "PlayerRevealsHand"} -> "Showdown"
      [] phase = "Showdown" /\ kind = "RankHands" -> "DistributingPots"
      [] phase = "DistributingPots" /\ kind = "DistributePots" -> "PostHand"
      [] OTHER -> "None"

NextStateType(phase, kind) ==
    CASE phase \in {"StartingGame", "PostHand"} /\ kind = "StartHand" -> "SettingBlinds"
      [] phase \in {"StartingGame", "PostHand"} /\ kind = "EndGame" -> "GameOver"
      [] phase = "SettingBlinds" /\ kind = "SetBlinds" -> "PlacingBlinds"
      [] phase = "PlacingBlinds" /\ kind = "PlaceBlinds" -> "ShufflingDeck"
      [] phase = "ShufflingDeck" /\ kind = "ShuffleDeck" -> "DealingHoleCards"
      [] phase = "DealingHoleCards" /\ kind = "DealHoleCards" -> "PreFlopBetting"
      [] phase \in BettingPhases /\ kind \in PlayerKinds -> phase
      [] phase \in BettingPhases /\ kind = FinishKind(phase) -> AfterBetting(phase)
      [] phase \in BettingPhases /\ kind = "DeclareDefaultWinner" -> "DistributingPots"
      [] phase = "DealingFlopCards" /\ kind = "DealFlopCards" -> "PostFlopBetting"
      [] phase = "DealingTurnCard" /\ kind = "DealTurnCard" -> "PostTurnBetting"
      [] phase = "DealingRiverCard" /\ kind = "DealRiverCard" -> "PostRiverBetting"
      [] phase = "Showdown" /\ kind \in {"PlayerFolds", "PlayerRevealsHand"} -> "Showdown"
      [] phase = "Showdown" /\ kind = "RankHands" -> "DistributingPots"
      [] phase = "DistributingPots" /\ kind = "DistributePots" -> "PostHand"
      [] OTHER -> "None"

----------------------------------------------------------------------------
(* The deck: Deck.deal_card pops the last card of the list.                 *)

\* a deal that takes the cards from the bottom of the deck
DealCards_bottom(deck, k) ==
    [cards |-> [i \in 1..k |-> deck[i]],
     deck |-> SubSeq(deck, k + 1, Len(deck))]

\* k cards dealt one after the other, and the deck that remains
DealCards(deck, k) ==
    [cards |-> [i \in 1..k |-> deck[Len(deck) + 1 - i]],
     deck |-> SubSeq(deck, 1, Len(deck) - k)]

\* Deck.__init__: the 52 cards in order (Card.CLUBS_2 = 1 .. Card.SPADES_ACE = 52)
FullDeck == [i \in 1..NumCards |-> i]

----------------------------------------------------------------------------
(* The Pot Allocator (specification section 4.4; the repository holds no   *)
(* code for it): one pot for each step between consecutive distinct        *)
(* positive contribution levels, held by every player whose contribution   *)
(* reaches the level.                                                       *)

\* contributors of a level: only the players who went beyond it
ContributorsAt_beyond(ids, chips, level) ==
    LET idx == SelectSeq([i \in 1..Len(ids) |-> i], LAMBDA i : chips[i] > level)
    IN  [k \in 1..Len(idx) |-> ids[idx[k]]]

ContributorsAt(ids, chips, level) ==
    LET idx == SelectSeq([i \in 1..Len(ids) |-> i], LAMBDA i : chips[i] >= level)
    IN  [k \in 1..Len(idx) |-> ids[idx[k]]]

\* pots whose stake is the whole level, not the step from the level below
RECURSIVE PotsFromLevels_whole(_, _, _, _)
PotsFromLevels_whole(ids, chips, prev, levels) ==
    IF levels = {} THEN <<>>
    ELSE LET level == MinOf(levels)
         IN  <<[player_ids |-> ContributorsAt(ids, chips, level), player_chips |-> level]>>
             \o PotsFromLevels_whole(ids, chips, level, levels \ {level})

RECURSIVE PotsFromLevels(_, _, _, _)
PotsFromLevels(ids, chips, prev, levels) ==
    IF levels = {} THEN <<>>
    ELSE LET level == MinOf(levels)
         IN  <<[player_ids |-> ContributorsAt(ids, chips, level),
                player_chips |-> level - prev]>>
             \o PotsFromLevels(ids, chips, level, levels \ {level})

PotAllocator(ids, chips) ==
    PotsFromLevels(ids, chips, 0, {chips[i] : i \in DOMAIN chips} \ {0})

\* the first Pot whose construction fails makes the allocation fail
PotsError(pots) == FirstError([i \in DOMAIN pots |-> PotError(pots[i])])

----------------------------------------------------------------------------
(* Showdown distribution (specification section 4.5; no code): a pot goes  *)
(* to the best-ranked of its players, whole.                                *)

PotWinner(pot, ranking) ==
    ranking[MinOf({i \in DOMAIN ranking : ranking[i] \in Range(pot.player_ids)})]

PotTotal(pot) == pot.player_chips * Len(pot.player_ids)

RECURSIVE Winnings(_, _, _)
Winnings(pots, ranking, player_id) ==
    IF pots = <<>> THEN 0
    ELSE (IF PotWinner(Head(pots), ranking) = player_id THEN PotTotal(Head(pots)) ELSE 0)
         + Winnings(Tail(pots), ranking, player_id)

----------------------------------------------------------------------------
(* The state each action asks for (specification section 4.2; the          *)
(* repository holds the states and the actions but no transition           *)
(* function).  The value is a candidate: it exists only if its             *)
(* constructor accepts it.                                                  *)

Zeros(n) == [i \in 1..n |-> 0]

AllFalse(n) == [i \in 1..n |-> FALSE]

\* StartHand -> SettingBlinds with the players the action names
Cand_StartHand(s, a) ==
    [Blank EXCEPT !.phase = "SettingBlinds", !.player_ids = s.player_ids,
                  !.player_stacks = s.player_stacks, !.hand_player_ids = a.arg]

\* EndGame -> GameOver
Cand_EndGame(s) ==
    [Blank EXCEPT !.phase = "GameOver", !.player_ids = s.player_ids,
                  !.player_stacks = s.player_stacks]

\* SetBlinds -> PlacingBlinds with the amounts the action names
Cand_SetBlinds(s, a) ==
    [s EXCEPT !.phase = "PlacingBlinds", !.little_blind = a.arg[1], !.big_blind = a.arg[2]]

\* the blind a position posts: the blind, or the full stack if smaller
BlindBets(s) ==
    [i \in 1..Len(s.hand_player_ids) |->
        CASE i = 1 -> Min2(s.little_blind, StackOf(s, s.hand_player_ids[1]))
          [] i = 2 -> Min2(s.big_blind, StackOf(s, s.hand_player_ids[2]))
          [] OTHER -> 0]

\* chips of `bets` that belong to the game player at position j
RECURSIVE BetsOf(_, _, _)
BetsOf(hand_ids, bets, player_id) ==
    IF hand_ids = <<>> THEN 0
    ELSE (IF Head(hand_ids) = player_id THEN Head(bets) ELSE 0)
         + BetsOf(Tail(hand_ids), Tail(bets), player_id)

\* PlaceBlinds -> ShufflingDeck: the posted chips leave the stacks
Cand_PlaceBlinds(s) ==
    LET bets == BlindBets(s)
    IN  [s EXCEPT !.phase = "ShufflingDeck", !.hand_player_bets = bets,
                  !.player_stacks = [j \in DOMAIN s.player_stacks |->
                      s.player_stacks[j] - BetsOf(s.hand_player_ids, bets, s.player_ids[j])]]

\* ShuffleDeck -> DealingHoleCards with the deck the action carries
Cand_ShuffleDeck(s, a) == [s EXCEPT !.phase = "DealingHoleCards", !.deck = a.arg]

\* a deal of hole cards that starts the round with the bets at 0
Cand_DealHoleCards_unposted(s) ==
    LET n == Len(s.hand_player_ids)
        dealt == DealCards(s.deck, 2 * n)
    IN  [s EXCEPT !.phase = "PreFlopBetting", !.deck = dealt.deck,
                  !.hand_player_bets = Zeros(n),
                  !.hand_player_hole_cards =
                      [i \in 1..n |-> <<dealt.cards[2 * i - 1], dealt.cards[2 * i]>>],
                  !.hand_player_has_folded = AllFalse(n)]

\* DealHoleCards -> PreFlopBetting: two cards to each player of the hand
Cand_DealHoleCards(s) ==
    LET n == Len(s.hand_player_ids)
        dealt == DealCards(s.deck, 2 * n)
    IN  [s EXCEPT !.phase = "PreFlopBetting", !.deck = dealt.deck,
                  !.hand_player_hole_cards =
                      [i \in 1..n |-> <<dealt.cards[2 * i - 1], dealt.cards[2 * i]>>],
                  !.hand_player_has_folded = AllFalse(n)]

\* all-in: the bet equals the player's stack (glossary; __init__.py:510-513)
IsAllIn(s, i) == s.hand_player_bets[i] = StackOf(s, s.hand_player_ids[i])

\* players who may still act: not folded, not all-in
StillActing(s) ==
    {i \in DOMAIN s.hand_player_ids : ~ s.hand_player_has_folded[i] /\ ~ IsAllIn(s, i)}

\* a round that may be closed whatever the bets are
Closeable_always(s) == TRUE

\* a round may be closed when every player still acting has matched the
\* largest bet, or at most one player is still acting
Closeable(s) ==
    \/ \A i \in StillActing(s) : s.hand_player_bets[i] = largest_bet(s)
    \/ Cardinality(StillActing(s)) <= 1

\* Finish*Betting: the bets of the round become pots
Cand_FinishBetting(s) ==
    LET next == AfterBetting(s.phase)
        pots == s.pots \o PotAllocator(s.hand_player_ids, s.hand_player_bets)
        n == Len(s.hand_player_ids)
    IN  IF next = "Showdown"
        THEN [s EXCEPT !.phase = next, !.pots = pots, !.hand_player_bets = <<>>,
                       !.little_blind = 0, !.big_blind = 0,
                       !.hand_player_has_revealed_hand = AllFalse(n)]
        ELSE [s EXCEPT !.phase = next, !.pots = pots, !.hand_player_bets = <<>>]

\* DealFlopCards -> PostFlopBetting: three cards, a new round of bets at 0
Cand_DealFlopCards(s) ==
    LET dealt == DealCards(s.deck, 3)
    IN  [s EXCEPT !.phase = "PostFlopBetting", !.deck = dealt.deck,
                  !.flop_cards = dealt.cards,
                  !.hand_player_bets = Zeros(Len(s.hand_player_ids))]

\* a turn card dealt while the first player's round starts with a chip staked
Cand_DealTurnCard_staked(s) ==
    LET dealt == DealCards(s.deck, 1)
    IN  [s EXCEPT !.phase = "PostTurnBetting", !.deck = dealt.deck,
                  !.turn_card = dealt.cards[1],
                  !.hand_player_bets =
                      [i \in 1..Len(s.hand_player_ids) |-> IF i = 1 THEN 1 ELSE 0]]

\* DealTurnCard -> PostTurnBetting
Cand_DealTurnCard(s) ==
    LET dealt == DealCards(s.deck, 1)
    IN  [s EXCEPT !.phase = "PostTurnBetting", !.deck = dealt.deck,
                  !.turn_card = dealt.cards[1],
                  !.hand_player_bets = Zeros(Len(s.hand_player_ids))]

\* DealRiverCard -> PostRiverBetting
Cand_DealRiverCard(s) ==
    LET dealt == DealCards(s.deck, 1)
    IN  [s EXCEPT !.phase = "PostRiverBetting", !.deck = dealt.deck,
                  !.river_card = dealt.cards[1],
                  !.hand_player_bets = Zeros(Len(s.hand_player_ids))]

\* PlayerRevealsHand -> Showdown
Cand_PlayerRevealsHand(s, a) ==
    [s EXCEPT !.hand_player_has_revealed_hand[IndexOf(s.hand_player_ids, a.player_id)] = TRUE]

\* the players of the hand who have not folded
NotFolded(s) ==
    {s.hand_player_ids[i] : i \in {j \in DOMAIN s.hand_player_ids : ~ s.hand_player_has_folded[j]}}

\* RankHands -> DistributingPots with the ranking the collaborator returns
Cand_RankHands(s, a) ==
    [Blank EXCEPT !.phase = "DistributingPots", !.player_ids = s.player_ids,
                  !.player_stacks = s.player_stacks, !.hand_player_ids = s.hand_player_ids,
                  !.pots = s.pots, !.hand_ranking_player_ids = a.arg]

\* DeclareDefaultWinner -> DistributingPots: the one player left is the ranking
Cand_DeclareDefaultWinner(s) ==
    [Blank EXCEPT !.phase = "DistributingPots", !.player_ids = s.player_ids,
                  !.player_stacks = s.player_stacks, !.hand_player_ids = s.hand_player_ids,
                  !.pots = s.pots \o PotAllocator(s.hand_player_ids, s.hand_player_bets),
                  !.hand_ranking_player_ids = <<CHOOSE p \in NotFolded(s) : TRUE>>]

\* DistributePots -> PostHand: the pots are paid into the stacks
Cand_DistributePots(s) ==
    [Blank EXCEPT !.phase = "PostHand", !.player_ids = s.player_ids,
                  !.player_stacks = [j \in DOMAIN s.player_stacks |->
                      s.player_stacks[j]
                      + Winnings(s.pots, s.hand_ranking_player_ids, s.player_ids[j])]]

----------------------------------------------------------------------------
(* _Game.next_step (__init__.py:689-715): the step a game is waiting for.  *)
(* A _Game is [players, button_position, round]; a _Player is              *)
(* [id, stack_size, bet_size], bet_size None until the player has bet;     *)
(* positions count from 0 as in the source.                                *)

NoGame == [players |-> <<>>, button_position |-> 0, round |-> "None"]

NoStep == [kind |-> "", player_id |-> ""]

\* no Deck has been created, no game loop has been called
NoDeck == [random |-> 0, cards |-> <<>>]

NoDecks == [d \in 1..2 |-> NoDeck]

NoDeckLog == [created |-> FALSE, random_seed |-> None, shuffles |-> 0, dealt |-> <<>>,
              raised |-> "none"]

NoDeckLogs == [d \in 1..2 |-> NoDeckLog]

NoLoop == [pc |-> "idle", state |-> None, action |-> None, raised |-> "none"]

StepOf(kind, player_id) == [kind |-> kind, player_id |-> player_id]

\* a next_step that asks for the big blind before the little blind
next_step_hasty(g) ==
    LET n == Len(g.players)
        little_blind_position == (g.button_position + 1) % n
        little_blind_player == g.players[little_blind_position + 1]
        big_blind_position == (little_blind_position + 1) % n
        big_blind_player == g.players[big_blind_position + 1]
    IN  IF n < 2 THEN StepOf("None", "")
        ELSE IF g.round = "None" THEN StepOf("StartNewHand", "")
        ELSE IF g.round = "PREFLOP" THEN
            IF big_blind_player.bet_size = None
            THEN StepOf("PostBigBlind", big_blind_player.id)
            ELSE IF little_blind_player.bet_size = None
            THEN StepOf("PostLittleBlind", little_blind_player.id)
            ELSE StepOf("None", "")
        ELSE StepOf("None", "")

next_step(g) ==
    LET n == Len(g.players)
        little_blind_position == (g.button_position + 1) % n
        little_blind_player == g.players[little_blind_position + 1]
        big_blind_position == (little_blind_position + 1) % n
        big_blind_player == g.players[big_blind_position + 1]
    IN  IF n < 2 THEN StepOf("None", "")
        ELSE IF g.round = "None" THEN StepOf("StartNewHand", "")
        ELSE IF g.round = "PREFLOP" THEN
            IF little_blind_player.bet_size = None
            THEN StepOf("PostLittleBlind", little_blind_player.id)
            ELSE IF big_blind_player.bet_size = None
            THEN StepOf("PostBigBlind", big_blind_player.id)
            ELSE StepOf("None", "")
        ELSE StepOf("None", "")

----------------------------------------------------------------------------
(* One step of the game loop (__init__.py:762-814: validate the action,    *)
(* validate it for the state, determine the next state).                    *)

\* what the state has against the action before a next state is built
StateError(s, a) ==
    CASE a.kind \in PlayerKinds ->
            IF validate_action_for_state(s, a) # "none"
            THEN validate_action_for_state(s, a) ELSE apply_action_error(s, a)
      [] a.kind = FinishKind(s.phase) ->
            IF ~ Closeable(s) THEN "InvalidActionForStateError"
            ELSE PotsError(PotAllocator(s.hand_player_ids, s.hand_player_bets))
      [] a.kind = "DeclareDefaultWinner" ->
            IF Cardinality({i \in DOMAIN s.hand_player_ids : ~ s.hand_player_has_folded[i]}) # 1
            THEN "InvalidActionForStateError"
            ELSE PotsError(PotAllocator(s.hand_player_ids, s.hand_player_bets))
      [] a.kind = "PlayerRevealsHand" ->
            IF PlayerMissing(s, a.player_id) THEN "InvalidActionForStateError" ELSE "none"
      [] OTHER -> "none"

\* the errors that reject an action: malformed, unexpected in the phase,
\* illegal for the state
ActionError(s, a) ==
    IF Action_validate(a) # "none" THEN Action_validate(a)
    ELSE IF NextStateType(s.phase, a.kind) = "None" THEN "UnexpectedActionForStateError"
    ELSE StateError(s, a)

\* the state the accepted action asks for
Candidate(s, a) ==
    CASE a.kind = "StartHand" -> Cand_StartHand(s, a)
      [] a.kind = "EndGame" -> Cand_EndGame(s)
      [] a.kind = "SetBlinds" -> Cand_SetBlinds(s, a)
      [] a.kind = "PlaceBlinds" -> Cand_PlaceBlinds(s)
      [] a.kind = "ShuffleDeck" -> Cand_ShuffleDeck(s, a)
      [] a.kind = "DealHoleCards" -> Cand_DealHoleCards(s)
      [] a.kind \in PlayerKinds -> apply_action(s, a)
      [] a.kind = FinishKind(s.phase) -> Cand_FinishBetting(s)
      [] a.kind = "DeclareDefaultWinner" -> Cand_DeclareDefaultWinner(s)
      [] a.kind = "DealFlopCards" -> Cand_DealFlopCards(s)
      [] a.kind = "DealTurnCard" -> Cand_DealTurnCard(s)
      [] a.kind = "DealRiverCard" -> Cand_DealRiverCard(s)
      [] a.kind = "PlayerRevealsHand" -> Cand_PlayerRevealsHand(s, a)
      [] a.kind = "RankHands" -> Cand_RankHands(s, a)
      [] a.kind = "DistributePots" -> Cand_DistributePots(s)

\* the exception of the step, "none" when the action is accepted
StepError(s, a) ==
    IF ActionError(s, a) # "none" THEN ActionError(s, a)
    ELSE ConstructError(Candidate(s, a))

\* a step that applies a player action without validating it for the state
NextState_unvalidated(s, a) ==
    IF StepError(s, a) = "none" THEN Candidate(s, a)
    ELSE IF /\ a.kind \in PlayerKinds
            /\ Action_validate(a) = "none"
            /\ s.phase \in BettingPhases
            /\ apply_action_error(s, a) = "none"
         THEN apply_action(s, a)
         ELSE s

\* the state after the step: the new value, or the old one when the step fails
NextState(s, a) == IF StepError(s, a) = "none" THEN Candidate(s, a) ELSE s

NoPayload == [player_id |-> "", bet |-> None]

NoAttempt == [action |-> Act("", "", None, <<>>), error |-> "none", again |-> FALSE]

\* The step.  An accepted action yields the next state; a rejected one leaves
\* the state alone and is kept, with its exception, until the caller submits
\* it once more (Retry) or takes it back to submit another action (Resume).
Submit(a) ==
    /\ attempt = NoAttempt
    /\ state' = NextState(state, a)
    /\ IF StepError(state, a) = "none"
       THEN /\ lastKind' = a.kind
            /\ lastPhase' = state.phase
            /\ lastPayload' = [player_id |-> a.player_id, bet |-> a.bet]
            /\ attempt' = NoAttempt
            /\ hands' = IF a.kind = "StartHand" THEN hands + 1 ELSE hands
       ELSE /\ attempt' = [action |-> a, error |-> StepError(state, a), again |-> FALSE]
            /\ UNCHANGED <<lastKind, lastPhase, lastPayload, hands>>
    /\ UNCHANGED <<buy_ins, contributions, allocation,
                 gameObj, step, decks, deckLog, loop>>

\* the rejected action is applied to the state a second time
Retry ==
    /\ attempt # NoAttempt
    /\ state' = NextState(state, attempt.action)
    /\ attempt' = [action |-> attempt.action, error |-> StepError(state, attempt.action),
                   again |-> TRUE]
    /\ UNCHANGED <<lastKind, lastPhase, lastPayload, hands, buy_ins, contributions, allocation,
                 gameObj, step, decks, deckLog, loop>>

Resume ==
    /\ attempt # NoAttempt
    /\ attempt' = NoAttempt
    /\ UNCHANGED <<state, lastKind, lastPhase, lastPayload, hands, buy_ins, contributions, allocation,
                 gameObj, step, decks, deckLog, loop>>

----------------------------------------------------------------------------
(* The inputs of the model. *)

Outsider == "Z"

\* the games that are started: player IDs and buy-ins
GameChoices ==
    {[ids |-> <<"A", "B">>, stacks |-> <<2, 2>>],
     [ids |-> <<"A", "B">>, stacks |-> <<2, 4>>]}

\* the players with chips, in seating order
WithChips(s) ==
    LET idx == SelectSeq([i \in 1..Len(s.player_ids) |-> i],
                         LAMBDA i : s.player_stacks[i] > 0)
    IN  [k \in 1..Len(idx) |-> s.player_ids[idx[k]]]

\* the hands a StartHand may name: the players with chips, every player of
\* the game, and hands that name too few players, a player twice, or somebody
\* who is not in the game
HandChoices(s) ==
    {WithChips(s), s.player_ids, SubSeq(s.player_ids, 1, 1),
     <<s.player_ids[1], s.player_ids[1]>>, <<s.player_ids[1], Outsider>>}

\* the blinds a SetBlinds may name: equal blinds, a big blind above the little
\* one, a blind of 0, and a big blind that is most of a stack
BlindChoices == {<<1, 1>>, <<1, 2>>, <<0, 1>>, <<1, 3>>}

\* decks a ShuffleDeck may carry: the 52 cards, a deck that lacks a card and
\* a deck that holds a card twice
DeckChoices ==
    {FullDeck, SubSeq(FullDeck, 1, NumCards - 1), [FullDeck EXCEPT ![NumCards] = 1]}

\* who submits player actions: the players of the game and an outsider
Actors(s) == Range(s.player_ids) \cup {Outsider}

\* the bets of CALL and RAISE actions: None, and -1 .. MaxBet
BetChoices == {None} \cup {Some(n) : n \in (-1)..MaxBet}

----------------------------------------------------------------------------
(* The game: Init is StartingGame as constructed, and each action of       *)
(* actions.py may be submitted in every phase.                              *)

StartingGame(g) ==
    [Blank EXCEPT !.phase = "StartingGame", !.player_ids = g.ids, !.player_stacks = g.stacks]

Init ==
    /\ \E g \in GameChoices :
          /\ ConstructError(StartingGame(g)) = "none"
          /\ state = StartingGame(g)
          /\ buy_ins = SumSeq(g.stacks)
    /\ lastKind = ""
    /\ lastPhase = "None"
    /\ lastPayload = NoPayload
    /\ attempt = NoAttempt
    /\ hands = 0
    /\ contributions = <<>>
    /\ allocation = <<>>
    /\ gameObj = NoGame
    /\ step = NoStep
    /\ decks = NoDecks
    /\ deckLog = NoDeckLogs
    /\ loop = NoLoop

StartHand ==
    /\ hands < MaxHands
    /\ \E ids \in HandChoices(state) : Submit(Act("StartHand", "", None, ids))

EndGame == Submit(Act("EndGame", "", None, <<>>))

SetBlinds == \E blinds \in BlindChoices : Submit(Act("SetBlinds", "", None, blinds))

PlaceBlinds == Submit(Act("PlaceBlinds", "", None, <<>>))

ShuffleDeck == \E deck \in DeckChoices : Submit(Act("ShuffleDeck", "", None, deck))

DealHoleCards == Submit(Act("DealHoleCards", "", None, <<>>))

PlayerCalls ==
    \E p \in Actors(state), bet \in BetChoices : Submit(Act("PlayerCalls", p, bet, <<>>))

PlayerRaises ==
    \E p \in Actors(state), bet \in BetChoices : Submit(Act("PlayerRaises", p, bet, <<>>))

PlayerFolds == \E p \in Actors(state) : Submit(Act("PlayerFolds", p, None, <<>>))

PlayerChecks == \E p \in Actors(state) : Submit(Act("PlayerChecks", p, None, <<>>))

DeclareDefaultWinner == Submit(Act("DeclareDefaultWinner", "", None, <<>>))

FinishPreFlopBetting == Submit(Act("FinishPreFlopBetting", "", None, <<>>))

DealFlopCards == Submit(Act("DealFlopCards", "", None, <<>>))

FinishPostFlopBetting == Submit(Act("FinishPostFlopBetting", "", None, <<>>))

DealTurnCard == Submit(Act("DealTurnCard", "", None, <<>>))

FinishPostTurn == Submit(Act("FinishPostTurn", "", None, <<>>))

DealRiverCard == Submit(Act("DealRiverCard", "", None, <<>>))

FinishPostRiverBetting == Submit(Act("FinishPostRiverBetting", "", None, <<>>))

PlayerRevealsHand ==
    \E p \in Actors(state) : Submit(Act("PlayerRevealsHand", p, None, <<>>))

\* the ranking collaborator orders the players who have not folded; players A
\* and B of equal rank come as one group, which is an element of the ranking
\* and not a player ID (specification section 6: "ordered groups of tied
\* player IDs")
TiedGroup == "A=B"

RankingResults(s) ==
    IF s.phase # "Showdown" THEN {<<>>}
    ELSE PermsOf(NotFolded(s))
         \cup (IF NotFolded(s) = {"A", "B"} THEN {<<TiedGroup>>} ELSE {})

RankHands ==
    \E ranking \in RankingResults(state) :
        Submit(Act("RankHands", "", None, ranking))

DistributePots == Submit(Act("DistributePots", "", None, <<>>))

Next ==
    \/ StartHand
    \/ EndGame
    \/ SetBlinds
    \/ PlaceBlinds
    \/ ShuffleDeck
    \/ DealHoleCards
    \/ PlayerCalls
    \/ PlayerRaises
    \/ PlayerFolds
    \/ PlayerChecks
    \/ DeclareDefaultWinner
    \/ FinishPreFlopBetting
    \/ DealFlopCards
    \/ FinishPostFlopBetting
    \/ DealTurnCard
    \/ FinishPostTurn
    \/ DealRiverCard
    \/ FinishPostRiverBetting
    \/ PlayerRevealsHand
    \/ RankHands
    \/ DistributePots
    \/ Retry
    \/ Resume

Spec == Init /\ [][Next]_vars

----------------------------------------------------------------------------
(* A hand of three players at its last round of bets.  The state is the    *)
(* one the steps below lead to; from there the hand is played to its end.  *)

\* the state after the actions, submitted one after the other
RECURSIVE Play(_, _)
Play(s, actions) ==
    IF actions = <<>> THEN s ELSE Play(NextState(s, Head(actions)), Tail(actions))

RiverGame == [ids |-> <<"A", "B", "C">>, stacks |-> <<3, 3, 1>>]

RiverPlay ==
    <<Act("StartHand", "", None, <<"A", "B", "C">>), Act("SetBlinds", "", None, <<1, 1>>),
      Act("PlaceBlinds", "", None, <<>>), Act("ShuffleDeck", "", None, FullDeck),
      Act("DealHoleCards", "", None, <<>>), Act("PlayerCalls", "C", Some(1), <<>>),
      Act("FinishPreFlopBetting", "", None, <<>>), Act("DealFlopCards", "", None, <<>>),
      Act("FinishPostFlopBetting", "", None, <<>>), Act("DealTurnCard", "", None, <<>>),
      Act("FinishPostTurn", "", None, <<>>), Act("DealRiverCard", "", None, <<>>)>>

\* the same hand with a side pot from the first round on: A raises all-in,
\* B calls, C calls all-in for less
SidePotPlay ==
    SubSeq(RiverPlay, 1, 5)
    \o <<Act("PlayerRaises", "A", Some(2), <<>>), Act("PlayerCalls", "B", Some(2), <<>>)>>
    \o SubSeq(RiverPlay, 6, Len(RiverPlay))

InitRiver ==
    /\ \E play \in {RiverPlay, SidePotPlay} : state = Play(StartingGame(RiverGame), play)
    /\ state.phase = "PostRiverBetting"
    /\ buy_ins = SumSeq(RiverGame.stacks)
    /\ lastKind = "DealRiverCard"
    /\ lastPhase = "DealingRiverCard"
    /\ lastPayload = NoPayload
    /\ attempt = NoAttempt
    /\ hands = 1
    /\ contributions = <<>>
    /\ allocation = <<>>
    /\ gameObj = NoGame
    /\ step = NoStep
    /\ decks = NoDecks
    /\ deckLog = NoDeckLogs
    /\ loop = NoLoop

NextRiver ==
    \/ EndGame
    \/ SetBlinds
    \/ PlaceBlinds
    \/ ShuffleDeck
    \/ DealHoleCards
    \/ PlayerCalls
    \/ PlayerRaises
    \/ PlayerFolds
    \/ PlayerChecks
    \/ DeclareDefaultWinner
    \/ FinishPreFlopBetting
    \/ DealFlopCards
    \/ FinishPostFlopBetting
    \/ DealTurnCard
    \/ FinishPostTurn
    \/ DealRiverCard
    \/ FinishPostRiverBetting
    \/ PlayerRevealsHand
    \/ RankHands
    \/ DistributePots
    \/ Retry
    \/ Resume

SpecRiver == InitRiver /\ [][NextRiver]_vars

----------------------------------------------------------------------------
(* Constructing states directly, as the callers of the dataclasses of      *)
(* states.py and state.py may: the values are the states of a hand played  *)
(* without bets, as they are and with their cards or players disturbed.    *)

CtorGame == [ids |-> <<"A", "B">>, stacks |-> <<2, 4>>]

CtorPlay ==
    <<Act("StartHand", "", None, <<"A", "B">>), Act("SetBlinds", "", None, <<1, 1>>),
      Act("PlaceBlinds", "", None, <<>>), Act("ShuffleDeck", "", None, FullDeck),
      Act("DealHoleCards", "", None, <<>>), Act("FinishPreFlopBetting", "", None, <<>>),
      Act("DealFlopCards", "", None, <<>>), Act("FinishPostFlopBetting", "", None, <<>>),
      Act("DealTurnCard", "", None, <<>>), Act("FinishPostTurn", "", None, <<>>),
      Act("DealRiverCard", "", None, <<>>), Act("FinishPostRiverBetting", "", None, <<>>),
      Act("RankHands", "", None, <<"A", "B">>), Act("DistributePots", "", None, <<>>),
      Act("EndGame", "", None, <<>>)>>

CardFaults ==
    {"none", "deck_lacks_card", "deck_repeats_card", "flop_in_deck", "hole_in_deck",
     "turn_is_flop_card"}

\* what a caller may pass for the players: 23 or 24 players in the game, an ID
\* twice, a stack too few, a hand of one player, a hand with an outsider
PlayerFaults ==
    {"players_23", "players_24", "player_twice", "stack_missing", "hand_of_one",
     "hand_with_outsider"}

\* what a caller may pass for the ranking of DistributingPots: no player at
\* all, or a player who is not in the hand
RankingFaults == {"ranking_empty", "ranking_with_outsider"}

\* what a caller may pass for the pots: a pot that names a player of the game
\* who is not in the hand
PotFaults == {"pot_of_bystander"}

\* the state with further players, each with a stack of 1, up to n in all
Crowded(s, n) ==
    [s EXCEPT !.player_ids = s.player_ids
                  \o [i \in 1..(n - Len(s.player_ids)) |-> ToString(i)],
              !.player_stacks = s.player_stacks
                  \o [i \in 1..(n - Len(s.player_ids)) |-> 1]]

\* the state with its cards or its players disturbed
Disturbed(s, fault) ==
    CASE fault = "players_23" -> Crowded(s, MaxPlayers)
      [] fault = "players_24" -> Crowded(s, MaxPlayers + 1)
      [] fault = "player_twice" -> [s EXCEPT !.player_ids[2] = s.player_ids[1]]
      [] fault = "stack_missing" ->
            [s EXCEPT !.player_stacks = SubSeq(s.player_stacks, 1, Len(s.player_stacks) - 1)]
      [] fault = "hand_of_one" /\ Len(s.hand_player_ids) > 0 ->
            [s EXCEPT !.hand_player_ids = SubSeq(s.hand_player_ids, 1, 1)]
      [] fault = "hand_with_outsider" /\ Len(s.hand_player_ids) > 0 ->
            [s EXCEPT !.hand_player_ids[2] = Outsider]
      [] fault = "pot_of_bystander" /\ s.pots # <<>> ->
            [s EXCEPT !.player_ids = s.player_ids \o <<"C">>,
                      !.player_stacks = s.player_stacks \o <<1>>,
                      !.pots[1].player_ids = s.pots[1].player_ids \o <<"C">>]
      [] fault = "ranking_empty" /\ s.phase = "DistributingPots" ->
            [s EXCEPT !.hand_ranking_player_ids = <<>>]
      [] fault = "ranking_with_outsider" /\ s.phase = "DistributingPots" ->
            [s EXCEPT !.hand_ranking_player_ids = s.hand_ranking_player_ids \o <<Outsider>>]
      [] fault = "deck_lacks_card" /\ Len(s.deck) > 0 ->
            [s EXCEPT !.deck = SubSeq(s.deck, 1, Len(s.deck) - 1)]
      [] fault = "deck_repeats_card" /\ Len(s.deck) > 1 ->
            [s EXCEPT !.deck[1] = s.deck[2]]
      [] fault = "flop_in_deck" -> [s EXCEPT !.deck = s.deck \o s.flop_cards]
      [] fault = "hole_in_deck" -> [s EXCEPT !.deck = s.deck \o HoleCardsOf(s)]
      [] fault = "turn_is_flop_card" /\ s.turn_card # 0 /\ Len(s.flop_cards) > 0 ->
            [s EXCEPT !.turn_card = s.flop_cards[1]]
      [] OTHER -> s

CtorInputs ==
    {[Disturbed(Play(StartingGame(CtorGame), SubSeq(CtorPlay, 1, k)), fault)
         EXCEPT !.module = m] :
        k \in 0..Len(CtorPlay),
        fault \in CardFaults \cup PlayerFaults \cup RankingFaults \cup PotFaults,
        m \in {"states", "state"}}

\* a State subclass is instantiated: the value exists if __post_init__ returns
Construct ==
    /\ attempt = NoAttempt
    /\ \E s \in CtorInputs :
          IF ConstructError(s) = "none"
          THEN /\ state' = s
               /\ lastKind' = "Construct"
               /\ lastPhase' = state.phase
               /\ lastPayload' = NoPayload
               /\ attempt' = NoAttempt
          ELSE /\ attempt' = [action |-> Act("Construct", "", None, s),
                              error |-> ConstructError(s), again |-> FALSE]
               /\ UNCHANGED <<state, lastKind, lastPhase, lastPayload>>
    /\ UNCHANGED <<hands, buy_ins, contributions, allocation,
                 gameObj, step, decks, deckLog, loop>>

NextCtor ==
    \/ Construct
    \/ Resume

SpecCtor == Init /\ [][NextCtor]_vars

----------------------------------------------------------------------------
(* The posting of the blinds: hands are started, the blinds set and placed, *)
(* and the states that follow PlacingBlinds (the classes ShuffleDeck and    *)
(* DealingHoleCards of states.py) are also instantiated with bets of the    *)
(* caller's choice.                                                         *)

BlindGames ==
    {[ids |-> <<"A", "B">>, stacks |-> <<100, 100>>],
     [ids |-> <<"A", "B", "C">>, stacks |-> <<2, 4, 4>>]}

InitBlinds ==
    /\ \E g \in BlindGames :
          /\ ConstructError(StartingGame(g)) = "none"
          /\ state = StartingGame(g)
          /\ buy_ins = SumSeq(g.stacks)
    /\ lastKind = ""
    /\ lastPhase = "None"
    /\ lastPayload = NoPayload
    /\ attempt = NoAttempt
    /\ hands = 0
    /\ contributions = <<>>
    /\ allocation = <<>>
    /\ gameObj = NoGame
    /\ step = NoStep
    /\ decks = NoDecks
    /\ deckLog = NoDeckLogs
    /\ loop = NoLoop

\* ShuffleDeck(...) or DealingHoleCards(...) is instantiated with the players
\* and blinds of the current state and the bets the caller passes
ConstructPosted ==
    /\ attempt = NoAttempt
    /\ state.phase = "PlacingBlinds"
    /\ \E phase \in {"ShufflingDeck", "DealingHoleCards"},
          bets \in [1..Len(state.hand_player_ids) -> 0..MaxBet] :
          LET s == [state EXCEPT !.phase = phase, !.hand_player_bets = bets,
                                 !.deck = IF phase = "DealingHoleCards"
                                          THEN FullDeck ELSE <<>>]
          IN  IF ConstructError(s) = "none"
              THEN /\ state' = s
                   /\ lastKind' = "Construct"
                   /\ lastPhase' = state.phase
                   /\ lastPayload' = NoPayload
                   /\ attempt' = NoAttempt
              ELSE /\ attempt' = [action |-> Act("Construct", "", None, s),
                                  error |-> ConstructError(s), again |-> FALSE]
                   /\ UNCHANGED <<state, lastKind, lastPhase, lastPayload>>
    /\ UNCHANGED <<hands, buy_ins, contributions, allocation,
                 gameObj, step, decks, deckLog, loop>>

NextBlinds ==
    \/ StartHand
    \/ SetBlinds
    \/ PlaceBlinds
    \/ ShuffleDeck
    \/ ConstructPosted
    \/ Retry
    \/ Resume

SpecBlinds == InitBlinds /\ [][NextBlinds]_vars

----------------------------------------------------------------------------
(* The Pot Allocator run on vectors of contributions.                      *)

PotPlayers == <<"A", "B", "C", "D", "E">>

\* contributions of one player: small ones, and those of the examples
ChipLevels == {0, 1, 2, 20, 50}

InitPots ==
    /\ \E n \in 2..MaxContributors :
       \E chips \in [1..n -> ChipLevels], folded \in [1..n -> BOOLEAN] :
          /\ \E i \in 1..n : ~ folded[i]
          /\ contributions = [ids |-> SubSeq(PotPlayers, 1, n), chips |-> chips,
                              folded |-> folded]
    /\ allocation = <<>>
    /\ gameObj = NoGame
    /\ step = NoStep
    /\ decks = NoDecks
    /\ deckLog = NoDeckLogs
    /\ loop = NoLoop
    /\ state = Blank
    /\ lastKind = ""
    /\ lastPhase = "None"
    /\ lastPayload = NoPayload
    /\ attempt = NoAttempt
    /\ hands = 0
    /\ buy_ins = 0

Allocate ==
    /\ allocation = <<>>
    /\ gameObj = NoGame
    /\ step = NoStep
    /\ allocation' =
          [pots |-> PotAllocator(contributions.ids, contributions.chips),
           error |-> PotsError(PotAllocator(contributions.ids, contributions.chips))]
    /\ UNCHANGED <<state, lastKind, lastPhase, lastPayload, attempt, hands, buy_ins,
                   contributions, gameObj, step, decks, deckLog, loop>>

NextPots == Allocate

SpecPots == InitPots /\ [][NextPots]_vars

----------------------------------------------------------------------------
(* Pot(player_ids, player_chips) constructed from lists of up to           *)
(* MaxContributors players, one of them naming a player twice, and from    *)
(* chips from -1 to MaxBet.                                                 *)

PotPlayerLists ==
    UNION {PermsOf(ids) : ids \in SUBSET Range(SubSeq(PotPlayers, 1, MaxContributors))}
        \cup {<<"A", "A">>}

InitPot ==
    /\ \E ids \in PotPlayerLists, chips \in (-1)..MaxBet :
          contributions = [player_ids |-> ids, player_chips |-> chips]
    /\ allocation = <<>>
    /\ gameObj = NoGame
    /\ step = NoStep
    /\ decks = NoDecks
    /\ deckLog = NoDeckLogs
    /\ loop = NoLoop
    /\ state = Blank
    /\ lastKind = ""
    /\ lastPhase = "None"
    /\ lastPayload = NoPayload
    /\ attempt = NoAttempt
    /\ hands = 0
    /\ buy_ins = 0

\* the Pot is kept if its construction raises nothing
NewPot ==
    /\ allocation = <<>>
    /\ allocation' =
          [pots |-> IF PotError(contributions) = "none" THEN <<contributions>> ELSE <<>>,
           error |-> PotError(contributions)]
    /\ UNCHANGED <<state, lastKind, lastPhase, lastPayload, attempt, hands, buy_ins,
                   contributions, gameObj, step, decks, deckLog, loop>>

NextPot == NewPot

SpecPot == InitPot /\ [][NextPot]_vars

----------------------------------------------------------------------------
(* _Game.next_step called on games of 1 to MaxSeats players, with and      *)
(* without chips, in any round and with any of the blinds already bet.     *)

SeatedPlayers(n) ==
    {[i \in 1..n |-> [id |-> PotPlayers[i], stack_size |-> stacks[i], bet_size |-> bets[i]]] :
        stacks \in [1..n -> 0..2], bets \in [1..n -> {None, Some(1)}]}

InitSteps ==
    /\ \E n \in 1..MaxSeats :
       \E players \in SeatedPlayers(n), button \in 0..(n - 1),
          round \in {"None", "PREFLOP", "FLOP"} :
          gameObj = [players |-> players, button_position |-> button, round |-> round]
    /\ step = NoStep
    /\ decks = NoDecks
    /\ deckLog = NoDeckLogs
    /\ loop = NoLoop
    /\ state = Blank
    /\ lastKind = ""
    /\ lastPhase = "None"
    /\ lastPayload = NoPayload
    /\ attempt = NoAttempt
    /\ hands = 0
    /\ buy_ins = 0
    /\ contributions = <<>>
    /\ allocation = <<>>

NextStep ==
    /\ step = NoStep
    /\ step' = next_step(gameObj)
    /\ UNCHANGED <<state, lastKind, lastPhase, lastPayload, attempt, hands, buy_ins,
                   contributions, allocation, gameObj, decks, deckLog, loop>>

SpecSteps == InitSteps /\ [][NextStep]_vars

----------------------------------------------------------------------------
(* Deck (__init__.py:211-297): a list of cards, the top card last, and the  *)
(* pseudo-random generator that shuffles it.  The generator is a state that *)
(* the seed determines and every draw advances; without a seed             *)
(* (random_seed=None, the default) random.Random takes its state from the   *)
(* system.                                                                   *)

MaxShuffles == 2

\* the seeds a Deck is created with
SeedChoices == {None, Some(1), Some(2)}

\* the states random.Random(None) may start in
Entropy == {3, 4}

\* a generator that takes its state from the system whatever the seed
Random_unseeded(random_seed) == Entropy

\* random.Random(random_seed): the states the generator may start in
Random(random_seed) == IF random_seed = None THEN Entropy ELSE {random_seed[1]}

\* the k-th number drawn from a generator that started in the state random;
\* k draws leave the generator in the state random + k
Draw(random, k) == ((random + k) * 75 + 74) % 65537

\* random.Random.shuffle: for i from the last position down to the second, the
\* card at i changes places with the card at a drawn position j <= i.  The
\* swaps of the positions hi down to lo are made upper half first.
RECURSIVE swap_from(_, _, _, _)
swap_from(cards, random, hi, lo) ==
    IF hi < lo \/ cards = <<>> THEN cards
    ELSE IF hi = lo
    THEN LET j == (Draw(random, Len(cards) + 1 - hi) % hi) + 1
         IN  [cards EXCEPT ![hi] = cards[j], ![j] = cards[hi]]
    ELSE LET mid == (hi + lo) \div 2
         IN  swap_from(swap_from(cards, random, hi, mid + 1), random, mid, lo)

\* Deck.shuffle
shuffle(d) ==
    IF Len(d.cards) < 2 THEN d
    ELSE [random |-> d.random + Len(d.cards) - 1,
          cards |-> swap_from(d.cards, d.random, Len(d.cards), 2)]

\* Deck.deal_card: list.pop(), which raises IndexError on an empty list
deal_card(d) ==
    IF d.cards = <<>> THEN [deck |-> d, card |-> 0, raised |-> "IndexError"]
    ELSE [deck |-> [d EXCEPT !.cards = DealCards(d.cards, 1).deck],
          card |-> DealCards(d.cards, 1).cards[1], raised |-> "none"]

\* Deck(random_seed)
NewDeck(d) ==
    /\ ~ deckLog[d].created
    /\ \E random_seed \in SeedChoices : \E random \in Random(random_seed) :
          /\ decks' = [decks EXCEPT ![d] = [random |-> random, cards |-> FullDeck]]
          /\ deckLog' = [deckLog EXCEPT ![d] = [NoDeckLog EXCEPT !.created = TRUE,
                                                       !.random_seed = random_seed]]
    /\ UNCHANGED <<state, lastKind, lastPhase, lastPayload, attempt, hands, buy_ins,
                   contributions, allocation, gameObj, step, loop>>

Shuffle(d) ==
    /\ deckLog[d].created
    /\ deckLog[d].raised = "none"
    /\ deckLog[d].shuffles < MaxShuffles
    /\ decks' = [decks EXCEPT ![d] = shuffle(decks[d])]
    /\ deckLog' = [deckLog EXCEPT ![d].shuffles = @ + 1]
    /\ UNCHANGED <<state, lastKind, lastPhase, lastPayload, attempt, hands, buy_ins,
                   contributions, allocation, gameObj, step, loop>>

DealCard(d) ==
    /\ deckLog[d].created
    /\ deckLog[d].raised = "none"
    /\ decks' = [decks EXCEPT ![d] = deal_card(decks[d]).deck]
    /\ deckLog' = [deckLog EXCEPT
                      ![d].raised = deal_card(decks[d]).raised,
                      ![d].dealt = IF deal_card(decks[d]).raised = "none"
                                   THEN Append(@, deal_card(decks[d]).card) ELSE @]
    /\ UNCHANGED <<state, lastKind, lastPhase, lastPayload, attempt, hands, buy_ins,
                   contributions, allocation, gameObj, step, loop>>

InitDeck ==
    /\ decks = NoDecks
    /\ deckLog = NoDeckLogs
    /\ loop = NoLoop
    /\ state = Blank
    /\ lastKind = ""
    /\ lastPhase = "None"
    /\ lastPayload = NoPayload
    /\ attempt = NoAttempt
    /\ hands = 0
    /\ buy_ins = 0
    /\ contributions = <<>>
    /\ allocation = <<>>
    /\ gameObj = NoGame
    /\ step = NoStep

\* one deck is created, shuffled and dealt from
NextDeck ==
    \/ NewDeck(1)
    \/ Shuffle(1)
    \/ DealCard(1)

SpecDeck == InitDeck /\ [][NextDeck]_vars

\* two decks are created and shuffled
NextShuffle ==
    \/ \E d \in 1..2 : NewDeck(d)
    \/ \E d \in 1..2 : Shuffle(d)

SpecShuffle == InitDeck /\ [][NextShuffle]_vars

----------------------------------------------------------------------------
(* The game loop (__init__.py:739-824; test/bluffai/test_room.py).          *)
(* play_game constructs a _State and repeats: next action, event, next      *)
(* state, log, until the state is terminal.  The statements of the loop are *)
(* followed one by one, from the _State that play_game constructs and from  *)
(* every _State a caller can construct; an exception ends the call.         *)

StateTypes ==
    {"INITIAL", "SETTING_BIG_BLIND", "SETTING_LITTLE_BLIND", "PLAYERS_BUYING_IN",
     "STARTING_HAND", "POSTING_BIG_BLIND", "POSTING_LITTLE_BLIND", "DEALING_HOLD_CARDS",
     "PRE_FLOP_BETTING", "DEALING_FLOP_CARDS", "POST_FLOP_BETTING", "DEALING_TURN_CARD",
     "POST_TURN_BETTING", "DEALING_RIVER_CARD", "POST_RIVER_BETTING", "SHOWDOWN",
     "ENDING_HAND", "TERMINAL"}

\* the blinds a _State is constructed with
BlindArgs == {None, Some(1), Some(2)}

\* _State(type, big_blind, little_blind): the exception of the constructor
\* ("none": the value exists); type is None when the argument is left out
State_init(type, big_blind, little_blind) ==
    IF type = None THEN "TypeError"
    ELSE IF type \in {<<"INITIAL">>, <<"SETTING_BIG_BLIND">>}
            /\ ~ (big_blind = None /\ little_blind = None)
    THEN "AssertionError"
    ELSE IF type = <<"SETTING_LITTLE_BLIND">>
            /\ ~ (big_blind # None /\ little_blind = None)
    THEN "AssertionError"
    ELSE "none"

\* _State.is_terminal
is_terminal(s) == FALSE

\* next_action(state): for a state without a big blind the action is built
\* from ActionType.SETS_BIG_BLIND, which ActionType (CALL, CHECK, FOLD, RAISE)
\* does not have; else no return value
next_action(s) ==
    IF s.big_blind = None THEN [raised |-> "AttributeError", action |-> None]
    ELSE [raised |-> "none", action |-> None]

\* next_state(event): raise NotImplemented, which is not an exception class
next_state(event) == [raised |-> "TypeError", state |-> None]

Raised(exception) == [NoLoop EXCEPT !.pc = "raised", !.raised = exception]

\* play_game(): events = []; state = _State()
PlayGame ==
    /\ loop = NoLoop
    /\ loop' = IF State_init(None, None, None) # "none"
               THEN Raised(State_init(None, None, None))
               ELSE [NoLoop EXCEPT !.pc = "next_action"]
    /\ UNCHANGED <<state, lastKind, lastPhase, lastPayload, attempt, hands, buy_ins,
                   contributions, allocation, gameObj, step, decks, deckLog>>

\* test_room(): Room(), and room.add_player_agent_addr for the first agent;
\* Room has the methods __init__ and add_player only
RoomTest ==
    /\ loop = NoLoop
    /\ loop' = Raised("AttributeError")
    /\ UNCHANGED <<state, lastKind, lastPhase, lastPayload, attempt, hands, buy_ins,
                   contributions, allocation, gameObj, step, decks, deckLog>>

\* state = _State(type, big_blind, little_blind)
ConstructState ==
    /\ loop = NoLoop
    /\ \E type \in StateTypes, big_blind \in BlindArgs, little_blind \in BlindArgs :
          loop' = IF State_init(Some(type), big_blind, little_blind) # "none"
                  THEN Raised(State_init(Some(type), big_blind, little_blind))
                  ELSE [NoLoop EXCEPT !.pc = "next_action",
                                      !.state = [type |-> type, big_blind |-> big_blind,
                                                 little_blind |-> little_blind]]
    /\ UNCHANGED <<state, lastKind, lastPhase, lastPayload, attempt, hands, buy_ins,
                   contributions, allocation, gameObj, step, decks, deckLog>>

\* action = next_action(state)
LoopNextAction ==
    /\ loop.pc = "next_action"
    /\ loop' = IF next_action(loop.state).raised # "none"
               THEN [loop EXCEPT !.pc = "raised", !.raised = next_action(loop.state).raised]
               ELSE [loop EXCEPT !.pc = "event", !.action = next_action(loop.state).action]
    /\ UNCHANGED <<state, lastKind, lastPhase, lastPayload, attempt, hands, buy_ins,
                   contributions, allocation, gameObj, step, decks, deckLog>>

\* event = _Event(state, action)
LoopEvent ==
    /\ loop.pc = "event"
    /\ loop' = [loop EXCEPT !.pc = "next_state"]
    /\ UNCHANGED <<state, lastKind, lastPhase, lastPayload, attempt, hands, buy_ins,
                   contributions, allocation, gameObj, step, decks, deckLog>>

\* state = next_state(event)
LoopNextState ==
    /\ loop.pc = "next_state"
    /\ loop' = IF next_state(loop).raised # "none"
               THEN [loop EXCEPT !.pc = "raised", !.raised = next_state(loop).raised]
               ELSE [loop EXCEPT !.pc = "log", !.state = next_state(loop).state]
    /\ UNCHANGED <<state, lastKind, lastPhase, lastPayload, attempt, hands, buy_ins,
                   contributions, allocation, gameObj, step, decks, deckLog>>

NextLoop ==
    \/ PlayGame
    \/ RoomTest
    \/ ConstructState
    \/ LoopNextAction
    \/ LoopEvent
    \/ LoopNextState

SpecLoop == InitDeck /\ [][NextLoop]_vars

\* a call that can take a step takes it
SpecLoopFair == SpecLoop /\ WF_vars(NextLoop)

----------------------------------------------------------------------------
(* Between hands: the game is in StartingGame, or in PostHand with stacks   *)
(* that a hand may have emptied (PostHand accepts a stack of 0), and the     *)
(* next hand is started or the game is ended.                                *)

BetweenHands ==
    {[ids |-> <<"A", "B">>, stacks |-> <<a, b>>] : a, b \in 0..2}
    \cup {[ids |-> <<"A", "B", "C">>, stacks |-> <<a, b, c>>] : a, b, c \in 0..1}

InitBetween ==
    /\ \E g \in BetweenHands, phase \in {"StartingGame", "PostHand"} :
          LET s == [StartingGame(g) EXCEPT !.phase = phase]
          IN  /\ ConstructError(s) = "none"
              /\ state = s
              /\ buy_ins = SumSeq(g.stacks)
    /\ lastKind = ""
    /\ lastPhase = "None"
    /\ lastPayload = NoPayload
    /\ attempt = NoAttempt
    /\ hands = 0
    /\ contributions = <<>>
    /\ allocation = <<>>
    /\ gameObj = NoGame
    /\ step = NoStep
    /\ decks = NoDecks
    /\ deckLog = NoDeckLogs
    /\ loop = NoLoop

NextBetween ==
    \/ StartHand
    \/ EndGame
    \/ Retry
    \/ Resume

SpecBetween == InitBetween /\ [][NextBetween]_vars

----------------------------------------------------------------------------
(* Chips. *)

RECURSIVE PotsTotal(_)
PotsTotal(pots) ==
    IF pots = <<>> THEN 0 ELSE PotTotal(Head(pots)) + PotsTotal(Tail(pots))

\* the chips a state accounts for: stacks, active bets and pot stakes
Chips(s) == SumSeq(s.player_stacks) + SumSeq(s.hand_player_bets) + PotsTotal(s.pots)

\* C1: within a hand, the stacks, the active bets and the pot stakes sum to
\* the buy-ins after every accepted transition.
ChipConservation == Chips(state) = buy_ins

----------------------------------------------------------------------------
(* Steps, as the formulas below read them. *)

\* this step is an action of the given kind, submitted and accepted
Accepted(kind) == attempt = NoAttempt /\ attempt' = NoAttempt /\ lastKind' = kind

\* this step is an action of the given kind, submitted and rejected
Rejected(kind) == attempt = NoAttempt /\ attempt' # NoAttempt /\ attempt'.action.kind = kind

\* the largest of the bets of the round, read off the bets themselves
RoundBet(s) == IF s.hand_player_bets = <<>> THEN 0 ELSE MaxOf(Range(s.hand_player_bets))

----------------------------------------------------------------------------
(* Rejection. *)

----------------------------------------------------------------------------
(* The order of the phases. *)

HandOrder ==
    <<"StartingGame", "SettingBlinds", "PlacingBlinds", "ShufflingDeck", "DealingHoleCards",
      "PreFlopBetting", "DealingFlopCards", "PostFlopBetting", "DealingTurnCard",
      "PostTurnBetting", "DealingRiverCard", "PostRiverBetting", "Showdown",
      "DistributingPots", "PostHand">>

\* the edges of the order: each phase to the next, PostHand to SettingBlinds,
\* StartingGame and PostHand to GameOver
HandOrderEdges ==
    {<<HandOrder[i], HandOrder[i + 1]>> : i \in 1..(Len(HandOrder) - 1)}
    \cup {<<"PostHand", "SettingBlinds">>, <<"StartingGame", "GameOver">>,
          <<"PostHand", "GameOver">>}

DefaultWinnerEdges == {<<phase, "DistributingPots">> : phase \in BettingPhases}

----------------------------------------------------------------------------
(* The action kinds of a phase. *)

\* the kinds the documentation of the phase and the action validator name
KindsOfPhase(phase) ==
    CASE phase \in {"StartingGame", "PostHand"} -> {"StartHand", "EndGame"}
      [] phase = "SettingBlinds" -> {"SetBlinds"}
      [] phase = "PlacingBlinds" -> {"PlaceBlinds"}
      [] phase = "ShufflingDeck" -> {"ShuffleDeck"}
      [] phase = "DealingHoleCards" -> {"DealHoleCards"}
      [] phase = "PreFlopBetting" ->
            PlayerKinds \cup {"FinishPreFlopBetting", "DeclareDefaultWinner"}
      [] phase = "DealingFlopCards" -> {"DealFlopCards"}
      [] phase = "PostFlopBetting" ->
            PlayerKinds \cup {"FinishPostFlopBetting", "DeclareDefaultWinner"}
      [] phase = "DealingTurnCard" -> {"DealTurnCard"}
      [] phase = "PostTurnBetting" -> PlayerKinds \cup {"FinishPostTurn", "DeclareDefaultWinner"}
      [] phase = "DealingRiverCard" -> {"DealRiverCard"}
      [] phase = "PostRiverBetting" ->
            PlayerKinds \cup {"FinishPostRiverBetting", "DeclareDefaultWinner"}
      [] phase = "Showdown" -> {"PlayerFolds", "PlayerRevealsHand", "RankHands"}
      [] phase = "DistributingPots" -> {"DistributePots"}
      [] OTHER -> {}

----------------------------------------------------------------------------
(* CHECK and CALL. *)

\* C9: in a round of bets a CHECK by a player of the game is accepted if the
\* largest bet is 0 and rejected with InvalidActionForStateError if it is not.
CheckIffNoBet ==
    [][/\ Accepted("PlayerChecks") => RoundBet(state) = 0
       /\ (Rejected("PlayerChecks") /\ state.phase \in BettingPhases
               /\ attempt'.action.player_id \in Range(state.player_ids))
              => RoundBet(state) > 0 /\ attempt'.error = "InvalidActionForStateError"]_vars

\* a CHECK was refused while a bet stood
CheckRejectedOnBet ==
    /\ attempt.action.kind = "PlayerChecks"
    /\ attempt.action.player_id \in Range(state.player_ids)
    /\ attempt.error = "InvalidActionForStateError"
    /\ state.phase \in BettingPhases
    /\ RoundBet(state) > 0

\* the CALL that is described as legal: a positive bet within the stack and
\* the largest bet, equal to the largest bet or to the whole stack
CallAsStated(s, player_id, bet) ==
    /\ bet # None
    /\ RoundBet(s) > 0
    /\ 0 < bet[1] /\ bet[1] <= StackOf(s, player_id)
    /\ bet[1] <= RoundBet(s)
    /\ (bet[1] = RoundBet(s) \/ bet[1] = StackOf(s, player_id))

\* C10 as stated: a CALL by a player of the hand is accepted exactly when it
\* is as described, and every other CALL is rejected with
\* InvalidActionForStateError.
CallLegalityAsStated ==
    [][/\ Accepted("PlayerCalls") =>
              CallAsStated(state, lastPayload'.player_id, lastPayload'.bet)
       /\ (Rejected("PlayerCalls") /\ state.phase \in BettingPhases
               /\ attempt'.action.player_id \in Range(state.hand_player_ids))
              => /\ ~ CallAsStated(state, attempt'.action.player_id, attempt'.action.bet)
                 /\ attempt'.error = "InvalidActionForStateError"]_vars

\* C10: a CALL by a player of the hand is accepted exactly when it is as
\* described; a rejected CALL whose bet is missing or 0 is rejected with
\* InvalidActionError, every other one with InvalidActionForStateError.
CallLegality ==
    [][/\ Accepted("PlayerCalls") =>
              CallAsStated(state, lastPayload'.player_id, lastPayload'.bet)
       /\ (Rejected("PlayerCalls") /\ state.phase \in BettingPhases
               /\ attempt'.action.player_id \in Range(state.hand_player_ids))
              => /\ ~ CallAsStated(state, attempt'.action.player_id, attempt'.action.bet)
                 /\ attempt'.error =
                       IF attempt'.action.bet \in {None, Some(0)}
                       THEN "InvalidActionError" ELSE "InvalidActionForStateError"]_vars

\* a player has called all-in for less than the largest bet
ShortCallAccepted ==
    /\ lastKind = "PlayerCalls"
    /\ lastPayload.bet # None
    /\ state.phase \in BettingPhases
    /\ lastPayload.bet[1] < RoundBet(state)

----------------------------------------------------------------------------
(* Cards. *)

CardPhases ==
    {"DealingHoleCards", "PreFlopBetting", "DealingFlopCards", "PostFlopBetting",
     "DealingTurnCard", "PostTurnBetting", "DealingRiverCard", "PostRiverBetting", "Showdown"}

\* the deck, the hole cards and the community cards revealed so far
CardsOf(s) ==
    s.deck \o HoleCardsOf(s) \o s.flop_cards
    \o (IF s.turn_card = 0 THEN <<>> ELSE <<s.turn_card>>)
    \o (IF s.river_card = 0 THEN <<>> ELSE <<s.river_card>>)

\* C5: in every phase that carries cards, the deck, the hole cards and the
\* community cards of a state that exists are 52 cards, no two the same.
CardsExact ==
    state.phase \in CardPhases =>
        Len(CardsOf(state)) = NumCards /\ Cardinality(Range(CardsOf(state))) = NumCards

----------------------------------------------------------------------------
(* Pots. *)

LevelsOf(chips) == {chips[i] : i \in DOMAIN chips} \ {0}

LevelAt(chips, k) ==
    CHOOSE level \in LevelsOf(chips) :
        Cardinality({l \in LevelsOf(chips) : l <= level}) = k

----------------------------------------------------------------------------
(* RAISE. *)

\* the RAISE that is described as legal: a positive bet within the stack and
\* above the largest bet
RaiseAsStated(s, player_id, bet) ==
    /\ bet # None
    /\ 0 < bet[1] /\ bet[1] <= StackOf(s, player_id)
    /\ bet[1] > RoundBet(s)

\* C11 as stated: a RAISE by a player of the hand is accepted exactly when it
\* is as described, and every other RAISE is rejected with
\* InvalidActionForStateError.
RaiseLegalityAsStated ==
    [][/\ Accepted("PlayerRaises") =>
              RaiseAsStated(state, lastPayload'.player_id, lastPayload'.bet)
       /\ (Rejected("PlayerRaises") /\ state.phase \in BettingPhases
               /\ attempt'.action.player_id \in Range(state.hand_player_ids))
              => /\ ~ RaiseAsStated(state, attempt'.action.player_id, attempt'.action.bet)
                 /\ attempt'.error = "InvalidActionForStateError"]_vars

\* C11: a RAISE by a player of the hand is accepted exactly when its bet is
\* positive, within the stack and above the largest bet; a rejected RAISE
\* whose bet is missing or 0 is rejected with InvalidActionError, every other
\* one with InvalidActionForStateError.
RaiseLegality ==
    [][/\ Accepted("PlayerRaises") =>
              RaiseAsStated(state, lastPayload'.player_id, lastPayload'.bet)
       /\ (Rejected("PlayerRaises") /\ state.phase \in BettingPhases
               /\ attempt'.action.player_id \in Range(state.hand_player_ids))
              => /\ ~ RaiseAsStated(state, attempt'.action.player_id, attempt'.action.bet)
                 /\ attempt'.error =
                       IF attempt'.action.bet \in {None, Some(0)}
                       THEN "InvalidActionError" ELSE "InvalidActionForStateError"]_vars

\* after an accepted RAISE, the RAISE of a player whose stack does not exceed
\* the largest bet has been refused
RaiseOverStackRefused ==
    /\ lastKind = "PlayerRaises"
    /\ lastPhase = state.phase
    /\ attempt.action.kind = "PlayerRaises"
    /\ attempt.action.player_id \in Range(state.hand_player_ids)
    /\ StackOf(state, attempt.action.player_id) <= RoundBet(state)
    /\ attempt.action.bet \notin {None, Some(0)}
    /\ attempt.error = "InvalidActionForStateError"

----------------------------------------------------------------------------
(* FOLD. *)

\* the player of the hand has not folded
Unfolded(s, player_id) ==
    /\ player_id \in Range(s.hand_player_ids)
    /\ ~ s.hand_player_has_folded[IndexOf(s.hand_player_ids, player_id)]

\* with the player folded, the hand and each of its pots keep a player who
\* has not folded
FoldLeavesPlayer(s, player_id) ==
    LET folded == [s.hand_player_has_folded
                      EXCEPT ![IndexOf(s.hand_player_ids, player_id)] = TRUE]
    IN  /\ \E i \in DOMAIN folded : ~ folded[i]
        /\ \A k \in DOMAIN s.pots :
              \E j \in DOMAIN s.pots[k].player_ids :
                  ~ folded[IndexOf(s.hand_player_ids, s.pots[k].player_ids[j])]

----------------------------------------------------------------------------
(* Malformed bets. *)

\* a bet that is missing or not positive
NotPositive(bet) == bet = None \/ bet[1] <= 0

\* C13: in a round of bets a CALL or a RAISE of a player of the hand whose
\* bet is missing, 0 or negative is never accepted and is rejected with
\* InvalidActionError, the state unchanged.
MalformedBetRejected ==
    [][\A kind \in {"PlayerCalls", "PlayerRaises"} :
          /\ Accepted(kind) => ~ NotPositive(lastPayload'.bet)
          /\ (Rejected(kind) /\ state.phase \in BettingPhases
                  /\ attempt'.action.player_id \in Range(state.hand_player_ids)
                  /\ NotPositive(attempt'.action.bet))
                 => attempt'.error = "InvalidActionError" /\ state' = state]_vars

----------------------------------------------------------------------------
(* The players of a hand. *)

\* the phases whose states tell who has folded
FoldPhases == CardPhases \ {"DealingHoleCards"}

\* positions of the hand whose player has not folded
UnfoldedPositions(s) ==
    {i \in DOMAIN s.hand_player_ids :
        i \in DOMAIN s.hand_player_has_folded /\ ~ s.hand_player_has_folded[i]}

----------------------------------------------------------------------------
(* Stacks and bets. *)

\* C15: in every state the stacks and the bets are not negative and the bet
\* of each player of the hand is at most the stack of that player.
BetsWithinStacks ==
    /\ \A i \in DOMAIN state.player_stacks : state.player_stacks[i] >= 0
    /\ \A i \in DOMAIN state.hand_player_bets :
          /\ state.hand_player_bets[i] >= 0
          /\ state.hand_player_bets[i] <= StackOf(state, state.hand_player_ids[i])

\* a RAISE to the whole stack has been accepted over a standing bet
AllInRaiseAccepted ==
    /\ state.phase \in BettingPhases
    /\ lastKind = "PlayerRaises"
    /\ lastPhase = state.phase
    /\ lastPayload.bet = Some(StackOf(state, lastPayload.player_id))
    /\ \E i \in DOMAIN state.hand_player_bets :
          /\ state.hand_player_ids[i] # lastPayload.player_id
          /\ state.hand_player_bets[i] > 0

----------------------------------------------------------------------------
(* The players of a game and of a hand. *)

\* the phases of a hand: their states name the players of the hand
HandPhases == Phases \ {"StartingGame", "PostHand", "GameOver"}

\* C16: every state has at most 23 players, no two with the same ID, and one
\* stack for each; every state of a hand has at least 2 players in the hand,
\* each of them a player of the game.
PlayersWellFormed ==
    /\ Len(state.player_ids) <= MaxPlayers
    /\ Cardinality(Range(state.player_ids)) = Len(state.player_ids)
    /\ Len(state.player_stacks) = Len(state.player_ids)
    /\ state.phase \in HandPhases =>
          /\ Len(state.hand_player_ids) >= MinHandPlayers
          /\ Range(state.hand_player_ids) \subseteq Range(state.player_ids)

\* a state of a hand with 23 players exists, and the same with 24 players
\* has been refused
CrowdedGameRefused ==
    /\ state.phase \in HandPhases
    /\ Len(state.player_ids) = MaxPlayers
    /\ attempt.action.kind = "Construct"
    /\ Len(attempt.action.arg.player_ids) = MaxPlayers + 1
    /\ attempt.error = "InvalidStateError"

\* C17: the players of a hand are named once each: no state lists the same
\* player twice in hand_player_ids.
HandPlayersDistinct ==
    Cardinality(Range(state.hand_player_ids)) = Len(state.hand_player_ids)

----------------------------------------------------------------------------
(* The blinds. *)

\* C18: in ShufflingDeck and DealingHoleCards the bet of the player in the
\* little-blind position is the little blind, or that player's whole stack;
\* the bet of the player in the big-blind position is the big blind, or that
\* player's whole stack; every other player of the hand has bet 0.  No other
\* state of these phases, each player named once in the hand, exists.
BlindBetsPosted ==
    (/\ state.phase \in {"ShufflingDeck", "DealingHoleCards"}
     /\ Cardinality(Range(state.hand_player_ids)) = Len(state.hand_player_ids)) =>
        /\ state.hand_player_bets[1]
               \in {state.little_blind, StackOf(state, state.hand_player_ids[1])}
        /\ state.hand_player_bets[2]
               \in {state.big_blind, StackOf(state, state.hand_player_ids[2])}
        /\ \A i \in 3..Len(state.hand_player_bets) : state.hand_player_bets[i] = 0

\* C19: PlaceBlinds submitted by two players with stacks 100, 100 and blinds
\* (1, 2) is accepted and yields the ShufflingDeck state with bets 1, 2 and
\* stacks 99, 98.
ScenarioBlindsPlaced ==
    [][(/\ Accepted("PlaceBlinds") \/ Rejected("PlaceBlinds")
        /\ state.phase = "PlacingBlinds"
        /\ state.hand_player_ids = <<"A", "B">>
        /\ state.player_stacks = <<100, 100>>
        /\ state.little_blind = 1 /\ state.big_blind = 2)
          => /\ Accepted("PlaceBlinds")
             /\ state'.phase = "ShufflingDeck"
             /\ state'.hand_player_bets = <<1, 2>>
             /\ state'.player_stacks = <<99, 98>>]_vars

----------------------------------------------------------------------------
(* The blind positions. *)

\* the player at a position of the game, positions counted from 0
Seat(g, position) == g.players[(position % Len(g.players)) + 1]

\* C20: in a game in which two players or more have chips, with button
\* position b, the little blind is asked of the player at position
\* (b+1) mod n and the big blind of the player at position (b+2) mod n, and a
\* player with a stack of 0 is never asked for a blind.
BlindPositions ==
    Cardinality({i \in DOMAIN gameObj.players : gameObj.players[i].stack_size > 0}) >= 2 =>
        /\ step.kind = "PostLittleBlind" =>
              /\ step.player_id = Seat(gameObj, gameObj.button_position + 1).id
              /\ Seat(gameObj, gameObj.button_position + 1).stack_size > 0
        /\ step.kind = "PostBigBlind" =>
              /\ step.player_id = Seat(gameObj, gameObj.button_position + 2).id
              /\ Seat(gameObj, gameObj.button_position + 2).stack_size > 0

----------------------------------------------------------------------------
(* Closing a round of bets. *)

FinishKinds == {FinishKind(phase) : phase \in BettingPhases}

\* every player who has neither folded nor bet the whole stack has matched the
\* largest bet, or at most one such player is left
RoundSettled(s) ==
    LET acting == {i \in DOMAIN s.hand_player_ids :
                      /\ ~ s.hand_player_has_folded[i]
                      /\ s.hand_player_bets[i] # StackOf(s, s.hand_player_ids[i])}
    IN  \/ \A i \in acting : s.hand_player_bets[i] = RoundBet(s)
        \/ Cardinality(acting) <= 1

----------------------------------------------------------------------------
(* Community cards. *)

\* the last k cards of a deck, the top one first
TopCards(deck, k) == [i \in 1..k |-> deck[Len(deck) + 1 - i]]

----------------------------------------------------------------------------
(* The showdown. *)

\* C23: in every Showdown state no player of the hand has both folded and
\* revealed the hand.
NoFoldedReveal ==
    state.phase = "Showdown" =>
        \A i \in DOMAIN state.hand_player_ids :
            ~ (state.hand_player_has_folded[i] /\ state.hand_player_has_revealed_hand[i])

\* a player who had revealed the hand has tried to fold in Showdown and the
\* state asked for has been refused
RevealedFoldRefused ==
    /\ state.phase = "Showdown"
    /\ attempt # NoAttempt
    /\ attempt.action.kind = "PlayerFolds"
    /\ attempt.action.player_id \in Range(state.hand_player_ids)
    /\ state.hand_player_has_revealed_hand[
           IndexOf(state.hand_player_ids, attempt.action.player_id)]
    /\ attempt.error = "InvalidStateError"

----------------------------------------------------------------------------
(* The ranking of a hand. *)

\* C24: in every DistributingPots state every player of the ranking is a
\* player of the hand and every pot has at least one of its players in the
\* ranking.
RankingCoversPots ==
    state.phase = "DistributingPots" =>
        /\ Range(state.hand_ranking_player_ids) \subseteq Range(state.hand_player_ids)
        /\ \A i \in DOMAIN state.pots :
               \E j \in DOMAIN state.pots[i].player_ids :
                   state.pots[i].player_ids[j] \in Range(state.hand_ranking_player_ids)

\* a DistributingPots state with a pot and an empty ranking has been asked for
\* and refused
UnrankedPotRefused ==
    /\ attempt # NoAttempt
    /\ attempt.action.kind = "Construct"
    /\ attempt.action.arg.phase = "DistributingPots"
    /\ attempt.action.arg.pots # <<>>
    /\ attempt.action.arg.hand_ranking_player_ids = <<>>
    /\ attempt.error = "InvalidStateError"

----------------------------------------------------------------------------
(* Paying the pots. *)

\* the players an element of a ranking stands for
MembersOf(element) == IF element = TiedGroup THEN {"A", "B"} ELSE {element}

\* the contributors of a pot who share the best rank among its contributors
BestTied(pot, ranking) ==
    LET ranked == {i \in DOMAIN ranking :
                      MembersOf(ranking[i]) \cap Range(pot.player_ids) # {}}
    IN  IF ranked = {} THEN {}
        ELSE MembersOf(ranking[MinOf(ranked)]) \cap Range(pot.player_ids)

\* the chips of a pot that go to a player: an even share for each of the
\* best-ranked contributors, nothing for anyone else
Share(pot, ranking, player_id) ==
    IF player_id \in BestTied(pot, ranking)
    THEN PotTotal(pot) \div Cardinality(BestTied(pot, ranking))
    ELSE 0

\* C25: a ranking of the players who have not folded, ties flagged, is taken
\* for the distribution, and DistributePots adds to each stack the player's
\* share of every pot: the pot's total split evenly among its best-ranked
\* contributors, nothing to a folded player or to a player outside the pot.
TiedPlayersShare ==
    [][/\ (Rejected("RankHands") /\ state.phase = "Showdown")
             => UNION {MembersOf(e) : e \in Range(attempt'.action.arg)} # NotFolded(state)
       /\ Accepted("DistributePots") =>
             /\ state'.phase = "PostHand"
             /\ state'.hand_player_bets = <<>>
             /\ \A j \in DOMAIN state.player_ids :
                    state'.player_stacks[j] = state.player_stacks[j]
                        + SumSeq([i \in DOMAIN state.pots |->
                                     Share(state.pots[i], state.hand_ranking_player_ids,
                                           state.player_ids[j])])]_vars

----------------------------------------------------------------------------
(* Starting the next hand. *)

\* the positions of the players who have chips
Funded(s) == {i \in DOMAIN s.player_ids : s.player_stacks[i] > 0}

\* C26: in StartingGame and PostHand, with fewer than 2 players who have
\* chips no StartHand is accepted and the only step that changes the state is
\* EndGame into GameOver; and no accepted StartHand names a player whose
\* stack is 0.
HandNeedsTwoFunded ==
    [][/\ (state.phase \in {"StartingGame", "PostHand"} /\ Cardinality(Funded(state)) < 2) =>
             /\ ~ Accepted("StartHand")
             /\ state' # state => Accepted("EndGame") /\ state'.phase = "GameOver"
       /\ Accepted("StartHand") =>
             \A i \in DOMAIN state'.hand_player_ids :
                 StackOf(state', state'.hand_player_ids[i]) > 0]_vars

----------------------------------------------------------------------------
(* The exceptions of the constructors. *)

\* C27: a state that is not constructed is refused with InvalidStateError and
\* with no other exception.
OnlyInvalidStateError ==
    (attempt # NoAttempt /\ attempt.action.kind = "Construct") =>
        attempt.error = "InvalidStateError"

----------------------------------------------------------------------------
(* Dealing from a deck. *)

\* C28: a deal returns the top card of the deck and leaves the other cards
\* in their order; a deal from an empty deck fails with DeckExhausted and
\* leaves the deck empty; the cards dealt from a deck are pairwise distinct
\* and none of them is left in the deck.
DealTakesTop ==
    [][\A d \in 1..2 :
          (deckLog[d].created /\ deckLog'[d].shuffles = deckLog[d].shuffles
             /\ deckLog'[d] # deckLog[d]) =>
              IF decks[d].cards = <<>>
              THEN deckLog'[d].raised = "DeckExhausted" /\ decks'[d].cards = <<>>
              ELSE /\ deckLog'[d].raised = "none"
                   /\ deckLog'[d].dealt
                         = Append(deckLog[d].dealt, decks[d].cards[Len(decks[d].cards)])
                   /\ decks'[d].cards = SubSeq(decks[d].cards, 1, Len(decks[d].cards) - 1)
                   /\ Cardinality(Range(deckLog'[d].dealt)) = Len(deckLog'[d].dealt)
                   /\ Range(deckLog'[d].dealt) \cap Range(decks'[d].cards) = {}
                   /\ Len(deckLog'[d].dealt) + Len(decks'[d].cards) = NumCards]_vars

----------------------------------------------------------------------------
(* Shuffling a deck. *)

\* the cards of a deck and the cards dealt from it are the 52 cards, each once
SameCards(d) ==
    /\ Len(decks[d].cards) + Len(deckLog[d].dealt) = NumCards
    /\ Range(decks[d].cards) \cup Range(deckLog[d].dealt) = 1..NumCards

----------------------------------------------------------------------------
(* Playing a game. *)

\* C30: the game loop eventually reaches a terminal state and stops.
GameCompletes == <>(loop.pc = "returned" /\ is_terminal(loop.state))

----------------------------------------------------------------------------
(* The bets at the start of a betting round. *)

LaterBettingPhases == {"PostFlopBetting", "PostTurnBetting", "PostRiverBetting"}

----------------------------------------------------------------------------
(* The end of the game. *)

----------------------------------------------------------------------------
(* The actions of a player who has folded. *)

\* C33: in a round of bets no action of a player who has folded is accepted:
\* the player stays folded and the player's bet stays as it is.
FoldedPlayerStaysOut ==
    [][\A i \in DOMAIN state.hand_player_ids :
          (/\ state.phase \in BettingPhases
           /\ state'.phase = state.phase
           /\ state.hand_player_has_folded[i])
              => /\ state'.hand_player_has_folded[i]
                 /\ state'.hand_player_bets[i] = state.hand_player_bets[i]
                 /\ ~ \E kind \in PlayerKinds :
                        /\ Accepted(kind)
                        /\ lastPayload'.player_id = state.hand_player_ids[i]]_vars

----------------------------------------------------------------------------
(* What an accepted player action changes. *)

\* the position of the player whose action has just been accepted
ActorPosition == IndexOf(state.hand_player_ids, lastPayload'.player_id)

\* C34: an accepted FOLD only sets the folded flag of its player, an accepted
\* CHECK changes nothing, an accepted CALL or RAISE only sets the bet of its
\* player to the bet of the action; the bets and flags of the other players
\* and all the stacks stay as they are.
ActionFrame ==
    [][\A kind \in PlayerKinds :
          (Accepted(kind) /\ state.phase \in BettingPhases) =>
              /\ state'.player_stacks = state.player_stacks
              /\ \A j \in DOMAIN state.hand_player_ids \ {ActorPosition} :
                     /\ state'.hand_player_bets[j] = state.hand_player_bets[j]
                     /\ state'.hand_player_has_folded[j] = state.hand_player_has_folded[j]
              /\ kind = "PlayerFolds" =>
                     /\ state'.hand_player_has_folded[ActorPosition]
                     /\ state'.hand_player_bets = state.hand_player_bets
              /\ kind = "PlayerChecks" => state' = state
              /\ kind \in {"PlayerCalls", "PlayerRaises"} =>
                     /\ state'.hand_player_bets[ActorPosition] = lastPayload'.bet[1]
                     /\ state'.hand_player_has_folded = state.hand_player_has_folded
              /\ \E bets \in [DOMAIN state.hand_player_bets -> 0..MaxBet],
                     folded \in [DOMAIN state.hand_player_has_folded -> BOOLEAN] :
                     state' = [state EXCEPT !.hand_player_bets = bets,
                                            !.hand_player_has_folded = folded]]_vars

\* a player with chips bet has folded after the RAISE of another player, and
\* the bets are those of before the FOLD
FoldedWithBetKept ==
    /\ state.phase \in BettingPhases
    /\ lastKind = "PlayerFolds"
    /\ attempt = NoAttempt
    /\ \E i \in DOMAIN state.hand_player_ids :
          /\ state.hand_player_ids[i] = lastPayload.player_id
          /\ state.hand_player_has_folded[i]
          /\ state.hand_player_bets[i] > 0
          /\ \E j \in DOMAIN state.hand_player_ids :
                 state.hand_player_bets[j] > state.hand_player_bets[i]

----------------------------------------------------------------------------
(* The bets over a round. *)

\* C35: within a round of bets no accepted action lowers a bet, so the
\* largest bet never falls; after an accepted RAISE the largest bet is the
\* bet of the RAISE and after an accepted CALL it is what it was.
BetsNeverDecrease ==
    [][(state.phase \in BettingPhases /\ state'.phase = state.phase) =>
          /\ \A i \in DOMAIN state.hand_player_bets :
                 state'.hand_player_bets[i] >= state.hand_player_bets[i]
          /\ RoundBet(state') >= RoundBet(state)
          /\ Accepted("PlayerRaises") =>
                 /\ RoundBet(state') = lastPayload'.bet[1]
                 /\ RoundBet(state') > RoundBet(state)
          /\ Accepted("PlayerCalls") => RoundBet(state') = RoundBet(state)]_vars

\* a RAISE of more than one chip has been called in full by another player
RaiseCalled ==
    /\ state.phase \in BettingPhases
    /\ lastKind = "PlayerCalls"
    /\ attempt = NoAttempt
    /\ RoundBet(state) >= 2
    /\ lastPayload.bet = Some(RoundBet(state))
    /\ Cardinality({i \in DOMAIN state.hand_player_bets :
                        state.hand_player_bets[i] = RoundBet(state)}) >= 2

----------------------------------------------------------------------------
(* The raises of a round. *)

\* the largest stack among the players of the hand
LargestStack(s) == MaxOf({StackOf(s, s.hand_player_ids[i]) : i \in DOMAIN s.hand_player_ids})

\* what is left to raise: the largest stack less the largest bet
RaiseRoom(s) == LargestStack(s) - RoundBet(s)

\* C36: in a round of bets the largest bet is at most the largest stack of
\* the hand, each accepted RAISE makes it strictly larger and no step of the
\* round makes the room left to raise larger, so the accepted RAISEs of a
\* round are at most as many as the largest stack; once the largest bet is
\* the largest stack every RAISE is rejected.
RaisesBounded ==
    [][(state.phase \in BettingPhases /\ state'.phase = state.phase) =>
          /\ RaiseRoom(state) >= 0
          /\ RaiseRoom(state') >= 0
          /\ RaiseRoom(state') <= RaiseRoom(state)
          /\ Accepted("PlayerRaises") => RaiseRoom(state') < RaiseRoom(state)
          /\ RaiseRoom(state) = 0 => ~ Accepted("PlayerRaises")
          /\ (RaiseRoom(state) = 0 /\ Rejected("PlayerRaises")) =>
                 attempt'.error \in {"InvalidActionError", "InvalidActionForStateError",
                                     "AssertionError"}]_vars

\* after an accepted RAISE to the largest stack of the hand, a further RAISE
\* with a bet has been rejected for the state
RaiseRefusedAtTop ==
    /\ state.phase \in BettingPhases
    /\ lastKind = "PlayerRaises"
    /\ lastPhase = state.phase
    /\ RaiseRoom(state) = 0
    /\ RoundBet(state) >= 2
    /\ attempt.action.kind = "PlayerRaises"
    /\ attempt.action.bet = Some(RoundBet(state))
    /\ attempt.action.player_id \in Range(state.hand_player_ids)
    /\ attempt.action.player_id # lastPayload.player_id
    /\ attempt.error = "InvalidActionForStateError"

----------------------------------------------------------------------------
(* CHECK in the first round of bets. *)

\* C37: in PreFlopBetting the largest bet is positive, so no CHECK is
\* accepted, whoever submits it; the CHECK of a player of the game is
\* rejected with InvalidActionForStateError.
NoCheckPreFlop ==
    [][state.phase = "PreFlopBetting" =>
          /\ RoundBet(state) > 0
          /\ ~ Accepted("PlayerChecks")
          /\ Rejected("PlayerChecks") =>
                 attempt'.error = "InvalidActionForStateError"]_vars

\* nobody has raised, and the CHECK of the player in the big-blind position
\* has been rejected
BigBlindCheckRefused ==
    /\ state.phase = "PreFlopBetting"
    /\ lastKind = "DealHoleCards"
    /\ attempt.action.kind = "PlayerChecks"
    /\ attempt.action.player_id = state.hand_player_ids[2]
    /\ state.hand_player_bets[2] = state.big_blind
    /\ state.hand_player_bets[2] = RoundBet(state)
    /\ attempt.error = "InvalidActionForStateError"

----------------------------------------------------------------------------
(* The order of the steps of a game. *)

\* C38: next_step yields no step for a game of fewer than 2 players and
\* StartNewHand when no round is in progress; in the pre-flop round it asks
\* the player at position (b+1) mod n for the little blind as long as that
\* player has no bet, and only then the player at the next position for the
\* big blind; the two are different players.
StepOrder ==
    LET n == Len(gameObj.players)
        little == Seat(gameObj, gameObj.button_position + 1)
        big == Seat(gameObj, gameObj.button_position + 2)
    IN  step # NoStep =>
            /\ n < 2 => step = StepOf("None", "")
            /\ (n >= 2 /\ gameObj.round = "None") => step = StepOf("StartNewHand", "")
            /\ (n >= 2 /\ gameObj.round = "PREFLOP") =>
                   /\ little.id # big.id
                   /\ (gameObj.button_position + 1) % n # (gameObj.button_position + 2) % n
                   /\ little.bet_size = None => step = StepOf("PostLittleBlind", little.id)
                   /\ (little.bet_size # None /\ big.bet_size = None)
                          => step = StepOf("PostBigBlind", big.id)
                   /\ step.kind = "PostBigBlind" => little.bet_size # None
                   /\ step.kind \in {"PostLittleBlind", "PostBigBlind", "None"}
            /\ step.kind \in {"PostLittleBlind", "PostBigBlind"} =>
                   (n >= 2 /\ gameObj.round = "PREFLOP")

\* in a game of two players with the button at the second, the first player
\* has bet the little blind and the second is asked for the big blind
BigBlindAfterLittle ==
    /\ Len(gameObj.players) = 2
    /\ gameObj.button_position = 1
    /\ gameObj.round = "PREFLOP"
    /\ gameObj.players[1].bet_size # None
    /\ step = StepOf("PostBigBlind", gameObj.players[2].id)

----------------------------------------------------------------------------
(* The players and the chips of a pot. *)

\* C39: a Pot is constructed only with 2 player IDs or more and a positive
\* number of chips per player; with fewer player IDs or with chips of 0 or
\* less the construction fails with InvalidPotError and there is no Pot.
PotsWellFormed ==
    allocation # <<>> =>
        /\ allocation.error = "InvalidPotError"
               <=> (Len(contributions.player_ids) < 2 \/ contributions.player_chips <= 0)
        /\ allocation.error = "none" <=> allocation.pots = <<contributions>>
        /\ allocation.error \in {"none", "InvalidPotError"}
        /\ \A i \in DOMAIN allocation.pots :
               /\ Len(allocation.pots[i].player_ids) >= 2
               /\ allocation.pots[i].player_chips > 0

\* the Pot of one player with a positive stake has been refused
SinglePlayerPotRefused ==
    /\ allocation # <<>>
    /\ Len(contributions.player_ids) = 1
    /\ contributions.player_chips > 0
    /\ allocation.error = "InvalidPotError"
    /\ allocation.pots = <<>>

----------------------------------------------------------------------------
(* The actions of somebody who is not in the game. *)

\* the player actions an outsider may submit, malformed ones included
OutsiderActions ==
    {Act(kind, Outsider, bet, <<>>) : kind \in PlayerKinds, bet \in BetChoices}

\* C40: a FOLD, CHECK, CALL or RAISE of somebody who is not a player of the
\* game fails the validation for the state with InvalidActionForStateError
\* whatever the bets and whatever its own bet; submitted in a phase that
\* expects the action, it is never accepted, a well-formed one is rejected
\* with that error, and the state stays as it is.
OutsiderRejected ==
    [][/\ \A a \in OutsiderActions :
              validate_action_for_state(state, a) = "InvalidActionForStateError"
       /\ \A kind \in PlayerKinds :
              /\ (Accepted(kind) /\ NextStateType(state.phase, kind) # "None")
                     => lastPayload'.player_id \in Range(state.player_ids)
              /\ (/\ Rejected(kind)
                  /\ NextStateType(state.phase, kind) # "None"
                  /\ attempt'.action.player_id \notin Range(state.player_ids)
                  /\ Action_validate(attempt'.action) = "none")
                     => /\ attempt'.error = "InvalidActionForStateError"
                        /\ state' = state]_vars

\* no bet is open, and still the CHECK of an outsider has been rejected
OutsiderCheckRefused ==
    /\ state.phase \in BettingPhases
    /\ RoundBet(state) = 0
    /\ attempt.action.kind = "PlayerChecks"
    /\ attempt.action.player_id = Outsider
    /\ Outsider \notin Range(state.player_ids)
    /\ attempt.error = "InvalidActionForStateError"

====
